---- MODULE Spec2Model ----
(***************************************************************************)
(* A model of the order-type classification pipeline and of the order      *)
(* status lifecycle of the tracker application.                            *)
(*                                                                         *)
(* Python strings that the code inspects (item codes, registry categories, *)
(* order-type tags) are sequences of one-character strings, so that        *)
(* strip(), lower(), substring tests and lexicographic sorting are         *)
(* computed and not assumed.  Python None is the value None below.         *)
(* Nullable timestamps are sets: {} is NULL and {t} is the time t.         *)
(***************************************************************************)
EXTENDS Integers, Sequences, FiniteSets, TLC

VARIABLES
    registry,     \* the LabourCode table: a set of rows [code, category, is_active]
    item_codes,   \* the argument of the last determine_order_type_from_codes call
    detected,     \* what that call returned
    orders,       \* the Order table: a sequence of rows, the id is the index
    invoices,     \* the Invoice table with each invoice's InvoiceLineItem rows
    now,          \* the wall clock, in minutes
    ticks,        \* how many times the clock has advanced
    customers,    \* the Customer table: a sequence of rows, the id is the index
    vehicles,     \* the Vehicle table: a sequence of rows, the id is the index
    salespeople,  \* the Salesperson table: a sequence of rows, the id is the index
    calls,        \* the service calls in flight: their arguments, position and results
    last_op       \* what the last request did (history, for stating the claims)

vars == <<registry, item_codes, detected, orders, invoices, now, ticks, customers, vehicles,
          salespeople, calls, last_op>>

----------------------------------------------------------------------------
(* Bounds of the model.                                                    *)

MaxCodes == 2
MaxOrders == 2
MaxInvoices == 2
MaxItems == 2
MaxTicks == 2
MaxCreateTime == 0
MaxRequests == 2

----------------------------------------------------------------------------
(* Python strings.                                                         *)

None == <<"None">>

\* the characters the model uses, in code-point order
AsciiOrder ==
    <<"\t", "\n", " ", "\"", "/", ",", "1", "2",
      "A", "B", "C", "D", "E", "F", "G", "H", "I", "J", "K", "L", "M",
      "N", "O", "P", "Q", "R", "S", "T", "U", "V", "W", "X", "Y", "Z",
      "[", "\\", "]",
      "a", "b", "c", "d", "e", "f", "g", "h", "i", "j", "k", "l", "m",
      "n", "o", "p", "q", "r", "s", "t", "u", "v", "w", "x", "y", "z">>

UpperCase ==
    <<"A", "B", "C", "D", "E", "F", "G", "H", "I", "J", "K", "L", "M",
      "N", "O", "P", "Q", "R", "S", "T", "U", "V", "W", "X", "Y", "Z">>

LowerCase ==
    <<"a", "b", "c", "d", "e", "f", "g", "h", "i", "j", "k", "l", "m",
      "n", "o", "p", "q", "r", "s", "t", "u", "v", "w", "x", "y", "z">>

CharCode(c) == CHOOSE i \in 1..Len(AsciiOrder) : AsciiOrder[i] = c

IsSpace(c) == c \in {" ", "\t", "\n"}

LowerChar(c) ==
    IF \E i \in 1..Len(UpperCase) : UpperCase[i] = c
    THEN LowerCase[CHOOSE i \in 1..Len(UpperCase) : UpperCase[i] = c]
    ELSE c

\* str.lower()
Lower(s) == [i \in 1..Len(s) |-> LowerChar(s[i])]

\* str.strip()
Strip(s) ==
    LET keep == {i \in 1..Len(s) : ~IsSpace(s[i])}
    IN  IF keep = {} THEN <<>>
        ELSE SubSeq(s, CHOOSE i \in keep : \A j \in keep : i <= j,
                       CHOOSE i \in keep : \A j \in keep : j <= i)

\* sub in s
Contains(s, sub) ==
    \E i \in 1..(Len(s) - Len(sub) + 1) : SubSeq(s, i, i + Len(sub) - 1) = sub

\* Python truth value of an optional string
Truthy(s) == s # None /\ s # <<>>

\* a < b for Python strings (lexicographic by code point)
StrLess(a, b) ==
    \E k \in 1..(Len(b)) :
        /\ k <= Len(a) + 1
        /\ \A i \in 1..(k - 1) : a[i] = b[i]
        /\ \/ k = Len(a) + 1
           \/ (k <= Len(a) /\ CharCode(a[k]) < CharCode(b[k]))

RECURSIVE SortedList(_)
\* sorted(list(S)) for a set of strings
SortedList(S) ==
    IF S = {} THEN <<>>
    ELSE LET m == CHOOSE x \in S : \A y \in S : x = y \/ StrLess(x, y)
         IN  <<m>> \o SortedList(S \ {m})

SeqToSet(q) == {q[i] : i \in 1..Len(q)}

\* [f(x) for x in q if keep(x)] is written with SelectSeq and a map
MapStrip(q) == [i \in 1..Len(q) |-> Strip(q[i])]

\* string literals of the code
LABOUR == <<"l", "a", "b", "o", "u", "r">>
SERVICE == <<"s", "e", "r", "v", "i", "c", "e">>
SALES == <<"s", "a", "l", "e", "s">>
UNSPECIFIED == <<"u", "n", "s", "p", "e", "c", "i", "f", "i", "e", "d">>
MIXED == <<"m", "i", "x", "e", "d">>
UNKNOWN == <<"u", "n", "k", "n", "o", "w", "n">>
INQUIRY == <<"i", "n", "q", "u", "i", "r", "y">>
UPLOAD == <<"u", "p", "l", "o", "a", "d">>
TYRE == <<"t", "y", "r", "e">>

----------------------------------------------------------------------------
(* The code registry (LabourCode) and the order-type detector.             *)

\* registry codes and categories the administrators enter
RegCodes == {<<"L">>, <<"S">>}

TYRE_SERVICE == <<"t", "y", "r", "e", " ", "s", "e", "r", "v", "i", "c", "e">>
LABOUR_PADDED == <<" ", "L", "a", "b", "o", "u", "r">>
BRAKE == <<"B", "r", "a", "k", "e">>

Categories == {LABOUR, LABOUR_PADDED, TYRE_SERVICE, SALES, BRAKE, <<>>}

\* item codes as they arrive from extraction or from the POST arrays
InputCodes == {None, <<>>, <<" ">>, <<"L">>, <<" ", "L">>, <<"S">>, <<"X">>}

LabourCodeRows == [code : RegCodes, category : Categories, is_active : BOOLEAN]

\* LabourCode.code is unique
UniqueCodes(reg) == \A r1, r2 \in reg : r1.code = r2.code => r1 = r2

\* the normalizer with 'unspecified' as the fallback for unrecognised text
NormalizeOtherUnspecified(category) ==
    IF ~Truthy(category) THEN UNSPECIFIED
    ELSE LET category_lower == Strip(Lower(category))
         IN  IF category_lower = LABOUR THEN LABOUR
             ELSE IF Contains(category_lower, TYRE) \/ Contains(category_lower, SERVICE)
                  THEN SERVICE
                  ELSE UNSPECIFIED

\* the normalizer without the test for 'tyre'
NormalizeServiceOnly(category) ==
    IF ~Truthy(category) THEN UNSPECIFIED
    ELSE LET category_lower == Strip(Lower(category))
         IN  IF category_lower = LABOUR THEN LABOUR
             ELSE IF Contains(category_lower, SERVICE) THEN SERVICE
                  ELSE LABOUR

\* _normalize_category_to_order_type
_normalize_category_to_order_type(category) ==
    IF ~Truthy(category) THEN UNSPECIFIED
    ELSE LET category_lower == Strip(Lower(category))
         IN  IF category_lower = LABOUR THEN LABOUR
             ELSE IF Contains(category_lower, TYRE) \/ Contains(category_lower, SERVICE)
                  THEN SERVICE
                  ELSE LABOUR

\* the lookup without the filter on is_active
FoundCodesWithInactive(reg, cleaned_codes) ==
    {r \in reg : r.code \in SeqToSet(cleaned_codes)}

\* LabourCode.objects.filter(code__in=cleaned_codes, is_active=True)
FoundCodes(reg, cleaned_codes) ==
    {r \in reg : r.is_active /\ r.code \in SeqToSet(cleaned_codes)}

\* cleaned_codes = [str(code).strip() for code in item_codes if code]
CleanCodes(codes) == MapStrip(SelectSeq(codes, Truthy))

EmptyMappingInfo ==
    [mapped |-> {}, unmapped |-> <<>>, categories_found |-> <<>>,
     order_types_found |-> <<>>]

DetectResult(order_type, categories, mapping_info) ==
    [order_type |-> order_type, categories |-> categories,
     mapping_info |-> mapping_info]

\* the final order type with the "one tag" branch dropped
FinalOrderTypeAlwaysMixed(order_types_found) ==
    IF Cardinality(order_types_found) = 0 THEN SALES ELSE MIXED

FinalOrderType(order_types_found) ==
    IF Cardinality(order_types_found) = 0 THEN SALES
    ELSE IF Cardinality(order_types_found) = 1
         THEN CHOOSE t \in order_types_found : TRUE
         ELSE MIXED

\* determine_order_type_from_codes
determine_order_type_from_codes(reg, codes) ==
    IF codes = <<>> THEN DetectResult(UNSPECIFIED, <<>>, EmptyMappingInfo)
    ELSE
    LET cleaned_codes == CleanCodes(codes)
    IN  IF cleaned_codes = <<>> THEN DetectResult(SALES, <<>>, EmptyMappingInfo)
        ELSE
        LET found_codes == FoundCodes(reg, cleaned_codes)
            code_to_category == {<<r.code, r.category>> : r \in found_codes}
            found_code_set == {r.code : r \in found_codes}
            mapped_categories == {r.category : r \in found_codes}
            unmapped_codes ==
                SelectSeq(cleaned_codes, LAMBDA c : c \notin found_code_set)
            has_unmapped == Len(unmapped_codes) > 0
            order_types_found ==
                {_normalize_category_to_order_type(c) : c \in mapped_categories}
                    \cup (IF has_unmapped THEN {SALES} ELSE {})
            categories_found ==
                mapped_categories \cup (IF has_unmapped THEN {SALES} ELSE {})
            final_order_type == FinalOrderType(order_types_found)
            final_categories ==
                IF Cardinality(order_types_found) = 0 THEN <<SALES>>
                ELSE SortedList(categories_found)
        IN  DetectResult(final_order_type, final_categories,
                [mapped |-> code_to_category,
                 unmapped |-> unmapped_codes,
                 categories_found |-> final_categories,
                 order_types_found |-> SortedList(order_types_found)])

----------------------------------------------------------------------------
(* The detector as a function of the registry and of the code list.        *)

\* every LabourCode table over RegCodes and Categories
Registries ==
    UNION {{{[code |-> c, category |-> f[c].category, is_active |-> f[c].is_active]
                : c \in D}
              : f \in [D -> [category : Categories, is_active : BOOLEAN]]}
           : D \in SUBSET RegCodes}

CodeLists == UNION {[1..n -> InputCodes] : n \in 0..MaxCodes}

NoResult == DetectResult(None, <<>>, EmptyMappingInfo)

InitDetect ==
    /\ registry \in Registries
    /\ item_codes \in CodeLists
    /\ detected = NoResult
    /\ orders = <<>>
    /\ invoices = <<>>
    /\ now = 0
    /\ ticks = 0
    /\ customers = <<>>
    /\ vehicles = <<>>
    /\ salespeople = <<>>
    /\ calls = [kind |-> "none"]
    /\ last_op = [op |-> "init"]

\* the call determine_order_type_from_codes(item_codes)
Detect ==
    /\ last_op.op = "init"
    /\ detected' = determine_order_type_from_codes(registry, item_codes)
    /\ last_op' = [op |-> "detect"]
    /\ UNCHANGED <<customers, vehicles, salespeople, calls, registry, item_codes, orders, invoices, now, ticks>>

NextDetect == Detect

SpecDetect == InitDetect /\ [][NextDetect]_vars

\* the codes of the last call that are not blank, stripped
CalledCodes == {Strip(item_codes[i]) : i \in {j \in 1..Len(item_codes) : Truthy(item_codes[j])}}

ActiveRow(c) == {r \in registry : r.code = c /\ r.is_active}

\* the distinct tags of the last call: the normalized tag of each active
\* match, plus 'sales' if any code has no active match
CalledTags ==
    {_normalize_category_to_order_type(r.category) :
        r \in UNION {ActiveRow(c) : c \in CalledCodes}}
      \cup (IF \E c \in CalledCodes : ActiveRow(c) = {} THEN {SALES} ELSE {})

\* C1: for a non-empty code list the detector returns 'mixed' exactly when
\* the set of distinct tags has more than one element, and when the set has
\* exactly one element it returns that element.
C1_MixedIffSeveralTags ==
    (last_op.op = "detect" /\ item_codes # <<>>) =>
        /\ (detected.order_type = MIXED <=> Cardinality(CalledTags) > 1)
        /\ (Cardinality(CalledTags) = 1 => detected.order_type \in CalledTags)

C1_Witness ==
    /\ last_op.op = "detect"
    /\ Len(item_codes) = 2
    /\ Cardinality(CalledTags) = 2
    /\ detected.order_type = MIXED
    /\ \E c \in CalledCodes : ActiveRow(c) = {}

\* C2 as stated: 'unspecified' is returned only when the input list is empty.
C2_UnspecifiedOnlyForEmptyList ==
    (last_op.op = "detect" /\ detected.order_type = UNSPECIFIED) => item_codes = <<>>

\* C2 amended: 'unspecified' is returned only when the input list is empty,
\* or when every code of the list has an active registry entry and all the
\* matched entries have an empty category.
C2_UnspecifiedOnlyEmptyListOrEmptyCategory ==
    (last_op.op = "detect" /\ detected.order_type = UNSPECIFIED) =>
        \/ item_codes = <<>>
        \/ /\ CalledCodes # {}
           /\ \A c \in CalledCodes :
                 ActiveRow(c) # {} /\ \A r \in ActiveRow(c) : r.category = <<>>

C2_Witness ==
    /\ last_op.op = "detect"
    /\ detected.order_type = UNSPECIFIED
    /\ item_codes # <<>>
    /\ \A c \in CalledCodes : \A r \in ActiveRow(c) : r.category = <<>>

\* C11: the detector returns 'unspecified' with no categories for the empty
\* list, and 'sales' with no categories and an empty mapping_info for a
\* non-empty list whose entries are all empty or whitespace-only strings.
C11_EmptyAndBlankLists ==
    last_op.op = "detect" =>
        /\ item_codes = <<>> =>
               /\ detected.order_type = UNSPECIFIED
               /\ detected.categories = <<>>
        /\ (/\ item_codes # <<>>
            /\ \A i \in 1..Len(item_codes) :
                   item_codes[i] # None /\ Strip(item_codes[i]) = <<>>)
           => detected = DetectResult(SALES, <<>>, EmptyMappingInfo)

\* C12: every cleaned code of the call lies in exactly one of
\* mapping_info.mapped and mapping_info.unmapped; it is mapped exactly when
\* the registry has an active entry with that code; when some code is
\* unmapped, 'sales' is among order_types_found and among the categories;
\* and a list of only unmapped codes gives the order type 'sales'.
C12_MappedOrUnmapped ==
    last_op.op = "detect" =>
        LET mapped == {p[1] : p \in detected.mapping_info.mapped}
            unmapped == SeqToSet(detected.mapping_info.unmapped)
        IN  /\ \A c \in CalledCodes : (c \in mapped) # (c \in unmapped)
            /\ \A c \in CalledCodes : (c \in mapped) <=> (ActiveRow(c) # {})
            /\ unmapped # {} =>
                   /\ SALES \in SeqToSet(detected.mapping_info.order_types_found)
                   /\ SALES \in SeqToSet(detected.categories)
            /\ (CalledCodes # {} /\ mapped = {}) => detected.order_type = SALES

\* a call with a code of an active entry and a code whose only entry is
\* inactive: the first is mapped, the second unmapped
C12_Witness ==
    /\ last_op.op = "detect"
    /\ \E c1, c2 \in CalledCodes :
           /\ ActiveRow(c1) # {}
           /\ \E r \in registry : r.code = c2 /\ ~r.is_active
           /\ c1 \in {p[1] : p \in detected.mapping_info.mapped}
           /\ c2 \in SeqToSet(detected.mapping_info.unmapped)

\* C13: the detector cleans and deduplicates its input: in every result
\* mapping_info.unmapped holds no empty string and no code twice.
C13_UnmappedCleanAndDistinct ==
    last_op.op = "detect" =>
        LET unmapped == detected.mapping_info.unmapped
        IN  /\ \A i \in 1..Len(unmapped) : unmapped[i] # <<>>
            /\ \A i, j \in 1..Len(unmapped) : i # j => unmapped[i] # unmapped[j]

----------------------------------------------------------------------------
(* The normalizer as a function of the category text.                      *)

\* pieces of category texts
CategoryPieces ==
    {<<" ">>, <<"x">>, LABOUR, <<"L", "A", "B", "O", "U", "R">>, TYRE,
     <<"T", "y", "r", "e">>, SERVICE, SALES}

\* the texts of up to three pieces, and None
CategoryTexts ==
    {None} \cup UNION {{<<>>}, CategoryPieces,
                       {p \o q : p, q \in CategoryPieces},
                       {p \o q \o r : p, q, r \in CategoryPieces}}

InitNormalize ==
    /\ registry = {}
    /\ item_codes = <<>>
    /\ detected = NoResult
    /\ orders = <<>>
    /\ invoices = <<>>
    /\ now = 0
    /\ ticks = 0
    /\ customers = <<>>
    /\ vehicles = <<>>
    /\ salespeople = <<>>
    /\ calls = [kind |-> "none"]
    /\ \E category \in CategoryTexts :
           last_op = [op |-> "call", category |-> category]

\* the call _normalize_category_to_order_type(category)
Normalize ==
    /\ last_op.op = "call"
    /\ last_op' = [op |-> "normalize", category |-> last_op.category,
                   result |-> _normalize_category_to_order_type(last_op.category)]
    /\ UNCHANGED <<customers, vehicles, salespeople, calls, registry, item_codes, detected, orders, invoices, now, ticks>>

NextNormalize == Normalize

SpecNormalize == InitNormalize /\ [][NextNormalize]_vars

\* C14: the normalizer returns only 'labour', 'service' or 'unspecified':
\* 'unspecified' for None and for the empty string; for any other input,
\* with the text lower-cased and stripped, 'labour' if the text is 'labour',
\* 'service' if it contains 'tyre' or 'service', and 'labour' otherwise.
C14_NormalizerCases ==
    last_op.op = "normalize" =>
        LET text == Strip(Lower(last_op.category))
            Holds(w) == \E i \in 1..(Len(text) - Len(w) + 1) :
                            SubSeq(text, i, i + Len(w) - 1) = w
            empty == last_op.category \in {None, <<>>}
        IN  /\ last_op.result \in {LABOUR, SERVICE, UNSPECIFIED}
            /\ empty => last_op.result = UNSPECIFIED
            /\ (~empty /\ text = LABOUR) => last_op.result = LABOUR
            /\ (~empty /\ text # LABOUR /\ (Holds(TYRE) \/ Holds(SERVICE)))
                   => last_op.result = SERVICE
            /\ (~empty /\ text # LABOUR /\ ~Holds(TYRE) /\ ~Holds(SERVICE))
                   => last_op.result = LABOUR

\* a call with an upper-case text that holds 'tyre' and not 'service'
C14_Witness ==
    /\ last_op.op = "normalize"
    /\ last_op.category = <<" ">> \o <<"T", "y", "r", "e">> \o <<"x">>
    /\ last_op.result = SERVICE

----------------------------------------------------------------------------
(* Orders and their status lifecycle.  Times are minutes.  Of an order    *)
(* the model keeps the fields that some handler reads.                    *)

OVERDUE_THRESHOLD_HOURS == 2
AUTO_PROGRESS_MINUTES == 10

OrderFields ==
    {"type", "status", "created_at", "started_at", "completed_at",
     "actual_duration", "delay_reason", "mixed_categories"}

\* a new Order instance with the field defaults of the model
NewOrder(type, status, t) ==
    [type |-> type, status |-> status, created_at |-> t, started_at |-> {},
     completed_at |-> {},
     actual_duration |-> {}, delay_reason |-> FALSE, mixed_categories |-> None]

\* the part of Order.save that runs before the row is written
ForceInquiryCompleted(obj, t) ==
    IF obj.type = INQUIRY
    THEN [obj EXCEPT !.completed_at = IF @ = {} THEN {t} ELSE @,
                     !.status = "completed"]
    ELSE obj

\* Order.save without the forcing of inquiries
SaveAsGiven(old, obj, update_fields, t) ==
    [type             |-> IF "type" \in update_fields THEN obj.type ELSE old.type,
     status           |-> IF "status" \in update_fields THEN obj.status ELSE old.status,
     created_at       |-> IF "created_at" \in update_fields THEN obj.created_at ELSE old.created_at,
     started_at       |-> IF "started_at" \in update_fields THEN obj.started_at ELSE old.started_at,
     completed_at     |-> IF "completed_at" \in update_fields THEN obj.completed_at ELSE old.completed_at,
     actual_duration  |-> IF "actual_duration" \in update_fields THEN obj.actual_duration ELSE old.actual_duration,
     delay_reason     |-> IF "delay_reason" \in update_fields THEN obj.delay_reason ELSE old.delay_reason,
     mixed_categories |-> IF "mixed_categories" \in update_fields THEN obj.mixed_categories ELSE old.mixed_categories]

\* Order.save(update_fields=...): old is the stored row, obj the instance
Order_save(old, obj, update_fields, t) ==
    SaveAsGiven(old, ForceInquiryCompleted(obj, t), update_fields, t)

\* is_order_overdue(started_at, now)
is_order_overdue(started_at, t) ==
    IF started_at = {} THEN FALSE
    ELSE \E s \in started_at : t - s >= OVERDUE_THRESHOLD_HOURS * 60

\* the writes that turn the table before into the table after
Writes(before, after) ==
    LET changed == SelectSeq([i \in 1..Len(before) |-> i],
                             LAMBDA i : before[i] # after[i])
    IN  [k \in 1..Len(changed) |->
            [id |-> changed[k], before |-> before[changed[k]],
             after |-> after[changed[k]]]]

\* Order.objects.filter(type='inquiry').exclude(status='completed').update(...)
NormalizeInquiries(ords, t) ==
    [i \in 1..Len(ords) |->
        IF ords[i].type = INQUIRY /\ ords[i].status # "completed"
        THEN [ords[i] EXCEPT !.status = "completed", !.completed_at = {t}]
        ELSE ords[i]]

\* the bulk update left out
ProgressCreatedSkipped(ords, t) == ords

\* filter(status='created', created_at__lte=now - 10 min).exclude(type='inquiry')
\*     .update(status='in_progress', started_at=F('created_at'))
ProgressCreated(ords, t) ==
    [i \in 1..Len(ords) |->
        IF /\ ords[i].status = "created"
           /\ ords[i].created_at <= t - AUTO_PROGRESS_MINUTES
           /\ ords[i].type # INQUIRY
        THEN [ords[i] EXCEPT !.status = "in_progress",
                             !.started_at = {ords[i].created_at}]
        ELSE ords[i]]

\* the loop over in_progress orders that marks the overdue ones
MarkInProgressOverdue(ords, t) ==
    [i \in 1..Len(ords) |->
        IF /\ ords[i].status = "in_progress"
           /\ ords[i].started_at # {}
           /\ ords[i].type # INQUIRY
           /\ is_order_overdue(ords[i].started_at, t)
        THEN Order_save(ords[i], [ords[i] EXCEPT !.status = "overdue"], {"status"}, t)
        ELSE ords[i]]

\* the loop over created orders of _mark_overdue_orders
MarkCreatedOverdue(ords, t) ==
    [i \in 1..Len(ords) |->
        IF /\ ords[i].status = "created"
           /\ ords[i].type # INQUIRY
           /\ is_order_overdue({ords[i].created_at}, t)
        THEN Order_save(ords[i], [ords[i] EXCEPT !.status = "overdue"], {"status"}, t)
        ELSE ords[i]]

----------------------------------------------------------------------------
(* The requests that write the status of an order.                         *)

\* order types used in the lifecycle specification
LifecycleTypes == {SERVICE, INQUIRY}

OrderIds == 1..Len(orders)

\* the history kept for a request other than automatic progression
Request(name) == [op |-> "request", writes |-> <<>>]

\* the history kept for a run of automatic progression: its writes in order
Progression(writes) == [op |-> "request", writes |-> writes]

StoreOrder(o, row, name) ==
    /\ orders' = [orders EXCEPT ![o] = row]
    /\ last_op' = Request(name)
    /\ UNCHANGED <<customers, vehicles, salespeople, calls, registry, item_codes, detected, invoices, now, ticks>>

InsertOrder(row, name) ==
    /\ Len(orders) < MaxOrders
    /\ now <= MaxCreateTime
    /\ orders' = Append(orders, row)
    /\ last_op' = Request(name)
    /\ UNCHANGED <<customers, vehicles, salespeople, calls, registry, item_codes, detected, invoices, now, ticks>>

\* the instance a completion handler builds before saving
CompletedInstance(ord, t) ==
    LET started == IF ord.started_at = {} THEN {t} ELSE ord.started_at
        reference_time == CHOOSE s \in started : TRUE
    IN  [ord EXCEPT !.started_at = started,
                    !.status = "completed",
                    !.completed_at = {t},
                    !.actual_duration =
                        {IF t - reference_time < 0 THEN 0 ELSE t - reference_time}]

\* OrderService.create_order
create_order(type) ==
    /\ type \in {SERVICE, SALES, INQUIRY, LABOUR, UNSPECIFIED, MIXED}
    /\ LET obj == NewOrder(type, "created", now)
       IN  InsertOrder(Order_save(obj, obj, OrderFields, now), "create_order")

\* api_create_inquiry
api_create_inquiry ==
    LET obj == [NewOrder(INQUIRY, "completed", now)
                   EXCEPT !.started_at = {now}, !.completed_at = {now}]
    IN  InsertOrder(Order_save(obj, obj, OrderFields, now), "api_create_inquiry")

\* order_edit with a valid form: the type is one of the form's fields
order_edit(o, type) ==
    LET old == orders[o]
        obj == [old EXCEPT !.type = type,
                           !.started_at =
                               IF old.status # "created" /\ old.started_at = {}
                               THEN {now} ELSE @]
    IN  StoreOrder(o, Order_save(old, obj, OrderFields, now), "order_edit")

\* order_detail: Order.auto_progress_if_elapsed
order_detail(o) ==
    LET old == orders[o]
        obj == [old EXCEPT !.status = "in_progress",
                           !.started_at = IF @ = {} THEN {now} ELSE @]
    IN  /\ old.status = "created"
        /\ now - old.created_at >= AUTO_PROGRESS_MINUTES
        /\ StoreOrder(o, Order_save(old, obj, {"status", "started_at"}, now),
                      "order_detail")

\* complete_order with the signature and documents it requires
complete_order(o) ==
    LET old == orders[o]
        obj == CompletedInstance(old, now)
    IN  IF old.type = INQUIRY
        THEN StoreOrder(o, Order_save(old, obj,
                            {"status", "started_at", "completed_at",
                             "actual_duration"}, now),
                        "complete_order")
        ELSE StoreOrder(o, Order_save(old, obj, OrderFields, now), "complete_order")

\* sign_order_document with a PDF and a signature
sign_order_document(o) ==
    LET old == orders[o]
    IN  StoreOrder(o, Order_save(old, CompletedInstance(old, now),
                       {"status", "completed_at", "actual_duration"}, now),
                   "sign_order_document")

\* sign_existing_document with an attachment and a signature
sign_existing_document(o) ==
    LET old == orders[o]
    IN  StoreOrder(o, Order_save(old, CompletedInstance(old, now),
                       {"status", "started_at", "completed_at", "actual_duration"}, now),
                   "sign_existing_document")

\* api_quick_stop_order
api_quick_stop_order(o) ==
    LET old == orders[o]
    IN  StoreOrder(o, Order_save(old, CompletedInstance(old, now),
                       {"status", "started_at", "completed_at", "actual_duration"}, now),
                   "api_quick_stop_order")

\* cancel_order with a reason
cancel_order(o) ==
    LET old == orders[o]
        obj == [old EXCEPT !.status = "cancelled"]
    IN  /\ old.type # INQUIRY
        /\ StoreOrder(o, Order_save(old, obj, {"status"}, now),
                      "cancel_order")

\* the exceeds_9_hours test of started_order_detail
ExceedsThreshold(ord, t) ==
    IF ord.started_at = {} THEN FALSE
    ELSE IF ord.status = "in_progress" THEN is_order_overdue(ord.started_at, t)
         ELSE \E d \in ord.actual_duration : d # 0 /\ d >= 9 * 60

\* started_order_detail, action complete_order
started_order_detail_complete(o, has_delay_reason) ==
    LET old == orders[o]
        obj == [old EXCEPT !.delay_reason = IF has_delay_reason THEN TRUE ELSE @,
                           !.status = "completed",
                           !.completed_at = {now}]
    IN  /\ ExceedsThreshold(old, now) => has_delay_reason
        /\ StoreOrder(o, Order_save(old, obj, OrderFields, now),
                      "started_order_detail")

\* inquiry_respond
inquiry_respond(o) ==
    LET old == orders[o]
        obj == [old EXCEPT !.status = IF @ = "created" THEN "in_progress" ELSE @]
    IN  /\ old.type = INQUIRY
        /\ StoreOrder(o, Order_save(old, obj, OrderFields, now), "inquiry_respond")

\* update_inquiry_status
update_inquiry_status(o, new_status) ==
    LET old == orders[o]
        obj == [old EXCEPT !.status = new_status,
                           !.completed_at =
                               IF new_status = "completed" THEN {now} ELSE @]
    IN  /\ old.type = INQUIRY
        /\ new_status \in {"created", "in_progress", "completed"}
        /\ StoreOrder(o, Order_save(old, obj, OrderFields, now),
                      "update_inquiry_status")

\* api_add_inquiry_note with a valid form
api_add_inquiry_note(o) ==
    LET old == orders[o]
        obj == [old EXCEPT !.status = "in_progress"]
    IN  /\ old.type = INQUIRY
        /\ StoreOrder(o, IF old.status = "created"
                         THEN Order_save(old, obj, {"status"}, now)
                         ELSE old,
                      "api_add_inquiry_note")

\* api_inquiry_bulk_action: queryset updates on the inquiries among the ids
api_inquiry_bulk_action(ids, action) ==
    /\ ids # {}
    /\ action \in {"mark_resolved", "mark_pending"}
    /\ orders' =
         [i \in 1..Len(orders) |->
            IF i \in ids /\ orders[i].type = INQUIRY
            THEN IF action = "mark_resolved"
                 THEN [orders[i] EXCEPT !.status = "completed",
                                        !.completed_at = {now}]
                 ELSE [orders[i] EXCEPT !.status = "in_progress"]
            ELSE orders[i]]
    /\ last_op' = Request("api_inquiry_bulk_action")
    /\ UNCHANGED <<customers, vehicles, salespeople, calls, registry, item_codes, detected, invoices, now, ticks>>

\* AutoProgressOrdersMiddleware.process_request
process_request ==
    LET o1 == ProgressCreated(orders, now)
        o2 == MarkInProgressOverdue(o1, now)
    IN  /\ orders' = o2
        /\ last_op' = Progression(Writes(orders, o1) \o Writes(o1, o2))
        /\ UNCHANGED <<customers, vehicles, salespeople, calls, registry, item_codes, detected, invoices, now, ticks>>

\* _mark_overdue_orders, run by the status and list views
_mark_overdue_orders ==
    LET o1 == NormalizeInquiries(orders, now)
        o2 == ProgressCreated(o1, now)
        o3 == MarkInProgressOverdue(o2, now)
        o4 == MarkCreatedOverdue(o3, now)
    IN  /\ orders' = o4
        /\ last_op' = Progression(Writes(orders, o1) \o Writes(o1, o2)
                                     \o Writes(o2, o3) \o Writes(o3, o4))
        /\ UNCHANGED <<customers, vehicles, salespeople, calls, registry, item_codes, detected, invoices, now, ticks>>

\* time passes
Tick(d) ==
    /\ ticks < MaxTicks
    /\ ticks' = ticks + 1
    /\ now' = now + d
    /\ last_op' = Request("tick")
    /\ UNCHANGED <<customers, vehicles, salespeople, calls, registry, item_codes, detected, orders, invoices>>

InitOrder ==
    /\ registry = {}
    /\ item_codes = <<>>
    /\ detected = NoResult
    /\ orders = <<>>
    /\ invoices = <<>>
    /\ now = 0
    /\ ticks = 0
    /\ customers = <<>>
    /\ vehicles = <<>>
    /\ salespeople = <<>>
    /\ calls = [kind |-> "none"]
    /\ last_op = Request("init")

NextOrder ==
    \/ \E type \in LifecycleTypes : create_order(type)
    \/ api_create_inquiry
    \/ \E o \in OrderIds, type \in LifecycleTypes : order_edit(o, type)
    \/ \E o \in OrderIds : order_detail(o)
    \/ \E o \in OrderIds : complete_order(o)
    \/ \E o \in OrderIds : sign_order_document(o)
    \/ \E o \in OrderIds : sign_existing_document(o)
    \/ \E o \in OrderIds : api_quick_stop_order(o)
    \/ \E o \in OrderIds : cancel_order(o)
    \/ \E o \in OrderIds, r \in BOOLEAN : started_order_detail_complete(o, r)
    \/ \E o \in OrderIds : inquiry_respond(o)
    \/ \E o \in OrderIds, st \in {"created", "in_progress", "completed"} :
          update_inquiry_status(o, st)
    \/ \E o \in OrderIds : api_add_inquiry_note(o)
    \/ \E ids \in SUBSET OrderIds, a \in {"mark_resolved", "mark_pending"} :
          api_inquiry_bulk_action(ids, a)
    \/ process_request
    \/ _mark_overdue_orders
    \/ \E d \in {AUTO_PROGRESS_MINUTES,
                 OVERDUE_THRESHOLD_HOURS * 60 - AUTO_PROGRESS_MINUTES} : Tick(d)

SpecOrder == InitOrder /\ [][NextOrder]_vars

----------------------------------------------------------------------------
(* Invoices and their line items.  Decimal amounts are exact fractions.   *)

RECURSIVE Gcd(_, _)
Gcd(a, b) == IF b = 0 THEN a ELSE Gcd(b, a % b)

\* the Decimal n / d
Rat(n, d) == LET g == Gcd(n, d) IN [num |-> n \div g, den |-> d \div g]

RatMul(a, b) == Rat(a.num * b.num, a.den * b.den)

RECURSIVE SumSeq(_)
SumSeq(q) == IF q = <<>> THEN 0 ELSE Head(q) + SumSeq(Tail(q))

ITEM == <<"I", "t", "e", "m">>

\* s or default, for an optional string
OrElse(s, default) == IF Truthy(s) THEN s ELSE default

RECURSIVE CollapseSpaces(_)
\* ' '.join(s.split()) for a stripped string
CollapseSpaces(s) ==
    IF s = <<>> THEN <<>>
    ELSE IF IsSpace(Head(s))
         THEN IF Len(s) > 1 /\ IsSpace(s[2])
              THEN CollapseSpaces(Tail(s))
              ELSE <<" ">> \o CollapseSpaces(Tail(s))
         ELSE <<Head(s)>> \o CollapseSpaces(Tail(s))

\* _get_item_code_categories: the order_type of every cleaned code
\* (a function on the cleaned codes; the result dict maps code -> order_type)
_get_item_code_categories(reg, codes) ==
    LET cleaned_codes == IF codes = <<>> THEN <<>> ELSE CleanCodes(codes)
        found_codes == FoundCodes(reg, cleaned_codes)
    IN  [c \in SeqToSet(cleaned_codes) |->
            IF \E r \in found_codes : r.code = c
            THEN _normalize_category_to_order_type(
                     (CHOOSE r \in found_codes : r.code = c).category)
            ELSE SALES]

\* one entry of the bucket dict of _aggregate_items after adding item it
AddToBucket(bucket, it) ==
    LET desc == Strip(OrElse(it.description, ITEM))
        code == Strip(OrElse(it.code, <<>>))
        desc_normalized == CollapseSpaces(Lower(desc))
        key == IF code # <<>> THEN code ELSE desc_normalized
        qty == IF it.qty = {} \/ it.qty = {0} THEN 1 ELSE CHOOSE q \in it.qty : TRUE
        unit == IF Truthy(it.unit) /\ Strip(it.unit) # <<>> THEN Strip(it.unit) ELSE None
        rates == IF it.rate = {} \/ it.rate = {0} THEN <<>>
                 ELSE <<CHOOSE r \in it.rate : TRUE>>
        values == IF it.value = {} \/ it.value = {0} THEN <<>>
                  ELSE <<CHOOSE v \in it.value : TRUE>>
        known == \E k \in 1..Len(bucket) : bucket[k].key = key
        fresh == [key |-> key, code |-> IF code # <<>> THEN code ELSE None,
                  description |-> desc, qty |-> 0, unit |-> unit,
                  rates |-> <<>>, values |-> <<>>]
        start == IF known THEN bucket ELSE Append(bucket, fresh)
    IN  [k \in 1..Len(start) |->
            IF start[k].key = key
            THEN [start[k] EXCEPT
                     !.qty = @ + qty,
                     !.unit = IF unit # None /\ @ = None THEN unit ELSE @,
                     !.rates = @ \o rates,
                     !.values = @ \o values]
            ELSE start[k]]

RECURSIVE Buckets(_)
Buckets(items_list) ==
    IF items_list = <<>> THEN <<>>
    ELSE AddToBucket(Buckets(SubSeq(items_list, 1, Len(items_list) - 1)),
                     items_list[Len(items_list)])

\* _aggregate_items
_aggregate_items(items_list) ==
    LET bucket == Buckets(items_list)
    IN  [k \in 1..Len(bucket) |->
            LET v == bucket[k]
                final_qty == IF v.qty > 0 THEN v.qty ELSE 1
            IN  [code |-> v.code,
                 description |-> v.description,
                 qty |-> final_qty,
                 unit |-> v.unit,
                 unit_price |->
                     IF v.rates # <<>> THEN Rat(SumSeq(v.rates), Len(v.rates))
                     ELSE IF v.values # <<>> THEN Rat(SumSeq(v.values), final_qty)
                     ELSE Rat(0, 1)]]

\* an InvoiceLineItem row
LineItem(code, description, quantity, unit, unit_price, line_total, order_type) ==
    [code |-> code, description |-> description, quantity |-> quantity,
     unit |-> unit, unit_price |-> unit_price, line_total |-> line_total,
     order_type |-> order_type]

\* the rows api_upload_extract_invoice builds from the aggregated items
ExtractedLineItems(reg, aggregated) ==
    LET coded == SelectSeq(aggregated, LAMBDA it : Truthy(it.code))
        code_order_types ==
            _get_item_code_categories(reg, [k \in 1..Len(coded) |-> coded[k].code])
    IN  [k \in 1..Len(aggregated) |->
            LET it == aggregated[k]
                qty == Rat(it.qty, 1)
                price == it.unit_price
                order_type ==
                    IF Truthy(it.code) /\ it.code \in DOMAIN code_order_types
                    THEN code_order_types[it.code]
                    ELSE UNSPECIFIED
            IN  LineItem(it.code, OrElse(it.description, ITEM), qty, it.unit,
                         price, RatMul(qty, price), order_type)]

\* the rows api_create_invoice_from_upload builds from the POST arrays,
\* one per posted item with a description, before duplicates are dropped
PostedLineItems(reg, posted) ==
    LET item_codes_posted == [k \in 1..Len(posted) |-> posted[k].code]
        code_order_types == _get_item_code_categories(reg, item_codes_posted)
        described == SelectSeq(posted, LAMBDA p : Strip(p.description) # <<>>)
    IN  [k \in 1..Len(described) |->
            LET p == described[k]
                code == IF p.code # <<>> THEN Strip(p.code) ELSE None
                unit == IF p.unit # <<>> THEN Strip(p.unit) ELSE None
                qty == IF p.qty = {} THEN Rat(1, 1)
                       ELSE Rat(CHOOSE q \in p.qty : TRUE, 1)
                unit_price == IF p.price = {} THEN Rat(0, 1)
                              ELSE Rat(CHOOSE r \in p.price : TRUE, 1)
                line_total == IF p.value = {} THEN RatMul(qty, unit_price)
                              ELSE Rat(CHOOSE v \in p.value : TRUE, 1)
                item_order_type ==
                    IF Truthy(code) /\ code \in DOMAIN code_order_types
                    THEN code_order_types[code]
                    ELSE UNKNOWN
            IN  LineItem(code, Strip(p.description), qty, unit, unit_price,
                         line_total, item_order_type)]

\* the key by which the upload drops repeated rows
SeenKey(row) ==
    <<OrElse(row.code, <<>>), Lower(row.description), OrElse(row.unit, <<>>),
      row.quantity, row.unit_price, row.line_total>>

RECURSIVE DropSeen(_, _)
DropSeen(rows, seen_keys) ==
    IF rows = <<>> THEN <<>>
    ELSE IF SeenKey(Head(rows)) \in seen_keys
         THEN DropSeen(Tail(rows), seen_keys)
         ELSE <<Head(rows)>>
                  \o DropSeen(Tail(rows), seen_keys \cup {SeenKey(Head(rows))})

\* to_create of api_create_invoice_from_upload
UploadedLineItems(reg, posted) == DropSeen(PostedLineItems(reg, posted), {})

\* json.dumps of one character of a string
JsonChar(c) ==
    IF c = "\"" \/ c = "\\" THEN <<"\\", c>>
    ELSE IF c = "\t" THEN <<"\\", "t">>
    ELSE IF c = "\n" THEN <<"\\", "n">>
    ELSE <<c>>

RECURSIVE JsonString(_)
JsonString(s) == IF s = <<>> THEN <<>> ELSE JsonChar(Head(s)) \o JsonString(Tail(s))

RECURSIVE JsonElements(_)
JsonElements(q) ==
    IF q = <<>> THEN <<>>
    ELSE <<"\"">> \o JsonString(Head(q)) \o <<"\"">>
             \o (IF Len(q) > 1 THEN <<",", " ">> \o JsonElements(Tail(q)) ELSE <<>>)

\* json.dumps of a list of strings
json_dumps(q) == <<"[">> \o JsonElements(q) \o <<"]">>

\* the codes of the stored items of an invoice, as the aggregation reads them
StoredCodes(inv_obj) ==
    LET stored == {inv_obj.items[k].code : k \in 1..Len(inv_obj.items)}
    IN  SortedList({c \in stored : Truthy(c)})

\* the detector call of the aggregation for one linked invoice
DetectStored(reg, codes) ==
    IF codes # <<>> THEN determine_order_type_from_codes(reg, codes)
    ELSE determine_order_type_from_codes(reg, <<>>)

\* what a detection (inv_type, inv_categories) adds to agg_types and to
\* agg_categories
Contribution(inv_type, inv_categories) ==
    [types |->
        IF Truthy(inv_type)
        THEN IF inv_categories # <<>>
             THEN {IF cat = SALES THEN SALES
                   ELSE _normalize_category_to_order_type(cat)
                      : cat \in SeqToSet(inv_categories)}
             ELSE {inv_type}
        ELSE {},
     categories |-> SeqToSet(inv_categories)]

ResultContribution(r) == Contribution(r.order_type, r.categories)

\* what one linked invoice adds to agg_types and agg_categories
InvoiceContribution(reg, inv_obj) ==
    ResultContribution(DetectStored(reg, StoredCodes(inv_obj)))

\* final_type
FinalType(agg_types) ==
    IF Cardinality(agg_types) = 0 THEN SALES
    ELSE IF Cardinality(agg_types) = 1 THEN CHOOSE t \in agg_types : TRUE
    ELSE MIXED

\* the values the aggregation ends with
FinalAggregate(final_type, final_categories, agg_types) ==
    [type |-> final_type,
     mixed_categories |->
         IF final_type = MIXED /\ final_categories # <<>>
         THEN json_dumps(final_categories)
         ELSE None,
     tags |-> agg_types,
     categories |-> final_categories]

\* the aggregation over the contributions of the linked invoices, with the
\* detection of the upload as the fallback
AggregateContributions(found_types, found_categories, detected_order_type, categories) ==
    IF found_types # {}
    THEN FinalAggregate(FinalType(found_types), SortedList(found_categories),
                        found_types)
    ELSE IF Truthy(detected_order_type)
    THEN FinalAggregate(FinalType({detected_order_type}),
                        SortedList(found_categories \cup SeqToSet(categories)),
                        {detected_order_type})
    ELSE FinalAggregate(FinalType({}),
                        SortedList(found_categories \cup SeqToSet(categories)),
                        {})

ContributionsTypes(linked) == UNION {c.types : c \in linked}

ContributionsCategories(linked) == UNION {c.categories : c \in linked}

LinkedAggregate(linked, detected_order_type, categories) ==
    AggregateContributions(ContributionsTypes(linked),
                           ContributionsCategories(linked),
                           detected_order_type, categories)

\* the order type aggregated over all invoices linked to the order
AggregatedOrderType(reg, invs_for_order, detected_order_type, categories) ==
    LinkedAggregate({InvoiceContribution(reg, invs_for_order[k])
                        : k \in 1..Len(invs_for_order)},
                    detected_order_type, categories)

----------------------------------------------------------------------------
(* The requests that write invoices.  An invoice row holds its number (the *)
(* sequence part of INV-<year>-<seq>), the id of its order and its line    *)
(* items in creation order.                                                *)

InvoiceIds == 1..Len(invoices)

\* Invoice.generate_invoice_number for an invoice without a number
generate_invoice_number(invs) ==
    LET max_seq == IF invs = <<>> THEN 0
                   ELSE CHOOSE n \in {invs[i].number : i \in 1..Len(invs)} :
                            \A i \in 1..Len(invs) : invs[i].number <= n
    IN  max_seq + 1

\* Invoice.objects.filter(order=order), as a list
InvoicesOfOrder(invs, o) == SelectSeq(invs, LAMBDA inv : inv.order = o)

\* the instance OrderService.update_order_from_invoice saves
OrderFromInvoice(obj) ==
    IF obj.status = "created" /\ obj.started_at = {}
    THEN [obj EXCEPT !.started_at = {obj.created_at}]
    ELSE obj

\* the history kept for a request that writes an invoice
\* (served counts these requests: a run holds at most MaxRequests of them)
InvoiceRequest(name, ok, i, o, before, built, det, result) ==
    [op |-> name, ok |-> ok, invoice |-> i, order |-> o, before |-> before,
     built |-> built, det |-> det, detected |-> result,
     served |-> last_op.served + 1]

NoDetection == [order_type |-> None, categories |-> <<>>]

\* the detection api_create_invoice_from_upload runs before its transaction;
\* det is the outcome of the query: it answers, the database stays locked
\* for the three attempts, or it raises another error
PreDetection(reg, posted, det) ==
    LET stripped == {Strip(posted[k].code) : k \in 1..Len(posted)}
        item_codes_pre == SortedList({c \in stripped : c # <<>>})
        r == determine_order_type_from_codes(reg, item_codes_pre)
    IN  IF det = "ok" THEN [order_type |-> r.order_type, categories |-> r.categories]
        ELSE IF det = "locked" THEN NoDetection
        ELSE [order_type |-> SALES, categories |-> <<>>]

ValidOrderTypes == {SERVICE, SALES, INQUIRY, LABOUR, UNSPECIFIED, MIXED}

\* the row of the order after the upload has stored the aggregated type and
\* OrderService.update_order_from_invoice has saved the instance
UploadedOrderRow(row, agg, t) ==
    LET typed == [ForceInquiryCompleted(row, t)
                     EXCEPT !.type = agg.type,
                            !.mixed_categories = agg.mixed_categories]
        row1 == Order_save(row, typed, {"type", "mixed_categories"}, t)
    IN  Order_save(row1, OrderFromInvoice(ForceInquiryCompleted(typed, t)),
                   OrderFields, t)

\* the writes of an upload whose transaction commits
UploadCommit(orders1, invoices1, o, i, before, to_create, det, d) ==
    /\ invoices' = invoices1
    /\ orders' = [orders1 EXCEPT ![o] =
                     UploadedOrderRow(orders1[o],
                         AggregatedOrderType(registry, InvoicesOfOrder(invoices1, o),
                                             d.order_type, d.categories),
                         now)]
    /\ last_op' = InvoiceRequest("upload", TRUE, i, o, before, to_create, det, d)

\* the upload from the choice of the invoice on: reused holds the invoice
\* with the posted number if it belongs to the order, new_number is the
\* number of a new invoice, is_new says that the order was created by the
\* request
UploadIntoInvoice(orders1, o, is_new, reused, new_number, to_create, det, d, fail) ==
    LET i == IF reused # {} THEN CHOOSE k \in reused : TRUE ELSE Len(invoices) + 1
        before == IF reused # {} THEN invoices[i].items ELSE <<>>
        inv == [number |-> IF reused # {} THEN invoices[i].number ELSE new_number,
                order |-> o, items |-> to_create,
                status |-> IF reused # {} THEN invoices[i].status ELSE "draft"]
    IN  /\ reused = {} => Len(invoices) < MaxInvoices
        /\ fail => to_create # <<>>
        /\ IF fail
           THEN \* the broken transaction is rolled back as a whole
                /\ last_op' = InvoiceRequest("upload", FALSE,
                                             IF reused # {} THEN i ELSE 0,
                                             IF is_new THEN 0 ELSE o,
                                             before, to_create, det, d)
                /\ UNCHANGED <<orders, invoices>>
           ELSE UploadCommit(orders1,
                             IF reused # {} THEN [invoices EXCEPT ![i] = inv]
                             ELSE Append(invoices, inv),
                             o, i, before, to_create, det, d)

\* the upload from the choice of the order on: existing holds the invoice
\* with the posted number
UploadForOrder(orders1, o, is_new, existing, number, to_create, det, d, fail) ==
    UploadIntoInvoice(orders1, o, is_new,
                      {i \in existing : invoices[i].order = o},
                      IF number # 0 /\ existing = {} THEN number
                      ELSE generate_invoice_number(invoices),
                      to_create, det, d, fail)

\* the row OrderService.create_order inserts
CreatedOrderRow(order_type, t) ==
    Order_save(NewOrder(order_type, "created", t),
               NewOrder(order_type, "created", t), OrderFields, t)

\* the upload after the detection d and with the rows to_create of its items
UploadDetected(d, to_create, sel, number, det, fail) ==
    IF sel = 0 /\ d.order_type \notin ValidOrderTypes
    THEN \* OrderService.create_order raises: the failure is reported
         /\ ~fail
         /\ last_op' = InvoiceRequest("upload", FALSE, 0, 0, <<>>, <<>>, det, d)
         /\ UNCHANGED <<orders, invoices>>
    ELSE UploadForOrder(
             IF sel = 0 THEN Append(orders, CreatedOrderRow(d.order_type, now))
             ELSE orders,
             IF sel = 0 THEN Len(orders) + 1 ELSE sel,
             sel = 0,
             {i \in InvoiceIds : number # 0 /\ invoices[i].number = number},
             number, to_create, det, d, fail)

\* api_create_invoice_from_upload.  sel is the order the request selects or
\* matches by plate (0: none), number the posted invoice number (0: blank),
\* fail says that bulk_create raises.
api_create_invoice_from_upload(posted, sel, number, det, fail) ==
    /\ last_op.served < MaxRequests
    /\ sel = 0 => Len(orders) < MaxOrders
    /\ UploadDetected(PreDetection(registry, posted, det),
                      UploadedLineItems(registry, posted), sel, number, det, fail)
    /\ UNCHANGED <<customers, vehicles, salespeople, calls, registry, item_codes, detected, now, ticks>>

\* the writes of an extraction commit for the order o: linked holds the
\* invoices of the order, first the one that is reused
ExtractCommit(orders1, o, linked, first, to_create, fail) ==
    LET i == IF linked # {} THEN first ELSE Len(invoices) + 1
        before == IF linked # {} THEN invoices[i].items ELSE <<>>
        inv == [number |-> IF linked # {} THEN invoices[i].number
                           ELSE generate_invoice_number(invoices),
                order |-> o,
                \* the old rows are deleted before the new ones are created
                items |-> IF fail THEN <<>> ELSE to_create,
                status |-> IF linked # {} THEN invoices[i].status ELSE "draft"]
    IN  /\ IF linked # {} THEN first \in linked
           ELSE first = 0 /\ Len(invoices) < MaxInvoices
        /\ fail => to_create # <<>>
        /\ invoices' = IF linked # {} THEN [invoices EXCEPT ![i] = inv]
                       ELSE Append(invoices, inv)
        /\ orders' = [orders1 EXCEPT ![o] =
                         Order_save(orders1[o], OrderFromInvoice(orders1[o]),
                                    OrderFields, now)]
        /\ last_op' = InvoiceRequest("extract", ~fail, i, o, before, to_create,
                                     "none", NoDetection)

\* api_upload_extract_invoice with commit=true and a customer.  sel is the
\* order the request selects or finds by plate (0: none), first the invoice
\* Invoice.objects.filter(order=order).first() returns when the order has
\* several, fail says that bulk_create raises.
api_upload_extract_invoice(items, sel, first, fail) ==
    /\ last_op.served < MaxRequests
    /\ sel = 0 => Len(orders) < MaxOrders
    /\ ExtractCommit(
           IF sel = 0 THEN Append(orders, CreatedOrderRow(SERVICE, now)) ELSE orders,
           IF sel = 0 THEN Len(orders) + 1 ELSE sel,
           {k \in InvoiceIds : invoices[k].order = (IF sel = 0 THEN Len(orders) + 1 ELSE sel)},
           first,
           ExtractedLineItems(registry,
                              IF items # <<>> THEN _aggregate_items(items) ELSE <<>>),
           fail)
    /\ UNCHANGED <<customers, vehicles, salespeople, calls, registry, item_codes, detected, now, ticks>>

\* the item the invoice page posts: the form strips the code and turns an
\* empty code into None
FormLineItem(reg, posted_code) ==
    LET code == IF Truthy(posted_code) /\ Strip(posted_code) # <<>>
                THEN Strip(posted_code) ELSE None
        code_categories == _get_item_code_categories(reg, <<code>>)
        order_type == IF Truthy(code) /\ code \in DOMAIN code_categories
                      THEN code_categories[code]
                      ELSE UNSPECIFIED
        quantity == Rat(1, 1)
        unit_price == Rat(2, 1)
    IN  LineItem(code, <<"m">>, quantity, None, unit_price,
                 RatMul(quantity, unit_price), order_type)

\* invoice_detail, action add_line_item with a valid form
add_line_item(i, posted_code) ==
    LET line_item == FormLineItem(registry, posted_code)
    IN  /\ last_op.served < MaxRequests
        /\ Len(invoices[i].items) < MaxItems
        /\ invoices' = [invoices EXCEPT ![i].items = Append(@, line_item)]
        /\ last_op' = InvoiceRequest("add_line_item", TRUE, i, invoices[i].order,
                                     invoices[i].items, <<line_item>>, "none",
                                     NoDetection)
        /\ UNCHANGED <<customers, vehicles, salespeople, calls, registry, item_codes, detected, orders, now, ticks>>

\* invoice_detail, action delete_line_item for the k-th item of the invoice
delete_line_item(i, k) ==
    /\ last_op.served < MaxRequests
    /\ k \in 1..Len(invoices[i].items)
    /\ invoices' = [invoices EXCEPT ![i].items =
                       SubSeq(@, 1, k - 1) \o SubSeq(@, k + 1, Len(@))]
    /\ last_op' = InvoiceRequest("delete_line_item", TRUE, i, invoices[i].order,
                                 invoices[i].items, <<>>, "none", NoDetection)
    /\ UNCHANGED <<customers, vehicles, salespeople, calls, registry, item_codes, detected, orders, now, ticks>>

\* invoice_finalize
invoice_finalize(i) ==
    /\ invoices' = [invoices EXCEPT ![i].status =
                       IF @ = "draft" /\ Len(invoices[i].items) # 0
                       THEN "issued" ELSE @]
    /\ last_op' = [op |-> "invoice_finalize", ok |-> invoices'[i].status = "issued",
                   invoice |-> i, order |-> invoices[i].order,
                   before |-> invoices[i].items, built |-> <<>>, det |-> "none",
                   detected |-> NoDetection, served |-> last_op.served]
    /\ UNCHANGED <<customers, vehicles, salespeople, calls, registry, item_codes, detected, orders, now, ticks>>

\* api_create_order_from_modal for a description of one line (or none)
api_create_order_from_modal(order_type, description) ==
    LET o == Len(orders) + 1
        line == Strip(description)
        items == IF line # <<>>
                 THEN <<LineItem(None, line, Rat(1, 1), None, Rat(0, 1),
                                 Rat(0, 1), UNKNOWN)>>
                 ELSE <<>>
        inv == [number |-> generate_invoice_number(invoices), order |-> o,
                items |-> items, status |-> "draft"]
    IN  /\ last_op.served < MaxRequests
        /\ Len(orders) < MaxOrders
        /\ IF order_type \notin ValidOrderTypes
           THEN \* OrderService.create_order raises and the request fails
                /\ last_op' = InvoiceRequest("modal", FALSE, 0, 0, <<>>, <<>>,
                                             "none", NoDetection)
                /\ UNCHANGED <<orders, invoices>>
           ELSE /\ orders' = Append(orders, CreatedOrderRow(order_type, now))
                /\ IF order_type = UPLOAD
                   THEN /\ Len(invoices) < MaxInvoices
                        /\ invoices' = Append(invoices, inv)
                   ELSE UNCHANGED invoices
                /\ last_op' = InvoiceRequest("modal", TRUE,
                                             IF order_type = UPLOAD
                                             THEN Len(invoices) + 1 ELSE 0,
                                             o, <<>>, items, "none", NoDetection)
        /\ UNCHANGED <<customers, vehicles, salespeople, calls, registry, item_codes, detected, now, ticks>>

\* the items of the upload form: description, quantity, price, code, unit
\* and value as posted (numbers as sets: empty for a blank field)
PostedItem(description, qty, price, code, unit, value) ==
    [description |-> description, qty |-> qty, price |-> price, code |-> code,
     unit |-> unit, value |-> value]

PostedCatalogue ==
    {PostedItem(<<"a">>, {1}, {2}, <<"L">>, <<>>, {}),
     PostedItem(<<"A", " ">>, {1}, {2}, <<" ", "L">>, <<>>, {}),
     PostedItem(<<"b">>, {}, {}, <<>>, <<"h">>, {3}),
     PostedItem(<<" ">>, {1}, {1}, <<"X">>, <<>>, {}),
     PostedItem(<<"c">>, {2}, {1}, <<"S">>, <<>>, {})}

\* the items the extractor returns: description, code, qty, unit, rate, value
ExtractedItem(description, code, qty, unit, rate, value) ==
    [description |-> description, code |-> code, qty |-> qty, unit |-> unit,
     rate |-> rate, value |-> value]

ExtractedCatalogue ==
    {ExtractedItem(<<"a">>, <<"L">>, {1}, None, {2}, {}),
     ExtractedItem(<<"b">>, None, {}, <<"h">>, {}, {3}),
     ExtractedItem(<<"B", " ">>, <<>>, {2}, None, {}, {3}),
     ExtractedItem(None, <<" ", "X">>, {1}, None, {}, {})}

ItemLists(catalogue) == UNION {[1..n -> catalogue] : n \in 0..MaxItems}

\* the registries of the invoice runs: 'L' is a labour code and 'S' a tyre
\* service, or 'L' carries the category 'sales' and 'S' is inactive
InvoiceRegistries ==
    {{[code |-> <<"L">>, category |-> LABOUR, is_active |-> TRUE],
      [code |-> <<"S">>, category |-> TYRE_SERVICE, is_active |-> TRUE]},
     {[code |-> <<"L">>, category |-> SALES, is_active |-> TRUE],
      [code |-> <<"S">>, category |-> LABOUR, is_active |-> FALSE]}}

\* the invoice numbers a request posts (0: none)
PostedNumbers == {0, 1}

InitInvoice ==
    /\ registry \in InvoiceRegistries
    /\ item_codes = <<>>
    /\ detected = NoResult
    /\ orders = <<>>
    /\ invoices = <<>>
    /\ now = 0
    /\ ticks = 0
    /\ customers = <<>>
    /\ vehicles = <<>>
    /\ salespeople = <<>>
    /\ calls = [kind |-> "none"]
    /\ last_op = [op |-> "init", served |-> 0]

NextInvoice ==
    \/ \E posted \in ItemLists(PostedCatalogue), sel \in {0} \cup OrderIds,
          number \in PostedNumbers, det \in {"ok", "locked", "error"},
          fail \in BOOLEAN :
          api_create_invoice_from_upload(posted, sel, number, det, fail)
    \/ \E items \in ItemLists(ExtractedCatalogue), sel \in {0} \cup OrderIds,
          first \in {0} \cup InvoiceIds, fail \in BOOLEAN :
          api_upload_extract_invoice(items, sel, first, fail)
    \/ \E i \in InvoiceIds, code \in {None, <<"L">>, <<" ", "L">>, <<"X">>} :
          add_line_item(i, code)
    \/ \E i \in InvoiceIds, k \in 1..MaxItems : delete_line_item(i, k)
    \/ \E order_type \in {SERVICE, UPLOAD}, description \in {<<>>, <<"m">>} :
          api_create_order_from_modal(order_type, description)

SpecInvoice == InitInvoice /\ [][NextInvoice]_vars

\* the invoice requests together with invoice_finalize
NextFinalize == NextInvoice \/ \E i \in InvoiceIds : invoice_finalize(i)

SpecFinalize == InitInvoice /\ [][NextFinalize]_vars

----------------------------------------------------------------------------
(* Claims about the classification of invoices and of their line items.    *)

\* C3: when an upload persists an invoice holding an item whose code has an
\* active registry entry of category 'labour' and an item with no code, the
\* detection of the upload gives 'mixed' with the categories
\* ['labour', 'sales'], and the order's type is set to 'mixed'.
C3_NoCodeCountsAsSales ==
    (/\ last_op.op = "upload" /\ last_op.ok /\ last_op.det = "ok"
     /\ \E k \in 1..Len(invoices[last_op.invoice].items) :
            \E r \in registry :
                /\ r.is_active /\ r.category = LABOUR
                /\ r.code = invoices[last_op.invoice].items[k].code
     /\ \E k \in 1..Len(invoices[last_op.invoice].items) :
            ~Truthy(invoices[last_op.invoice].items[k].code))
    => /\ last_op.detected.order_type = MIXED
       /\ last_op.detected.categories = <<LABOUR, SALES>>
       /\ orders[last_op.order].type = MIXED

\* C4: every persisted line item carries the order_type its code has in the
\* registry: the normalized tag of the category for a code with an active
\* entry, and 'sales' for a code without an active entry or for no code.
C4_OrderTypeFunctionOfCode ==
    \A i \in InvoiceIds : \A k \in 1..Len(invoices[i].items) :
        LET it == invoices[i].items[k]
            rows == {r \in registry : r.is_active /\ r.code = it.code}
        IN  it.order_type =
                IF Truthy(it.code) /\ rows # {}
                THEN _normalize_category_to_order_type(
                         (CHOOSE r \in rows : TRUE).category)
                ELSE SALES

\* C5: every persisted line item has an order_type among labour, service,
\* sales and unspecified.
C5_OrderTypeInChoices ==
    \A i \in InvoiceIds : \A k \in 1..Len(invoices[i].items) :
        invoices[i].items[k].order_type \in {LABOUR, SERVICE, SALES, UNSPECIFIED}

\* C6: after an upload for an invoice that already had line items, the
\* invoice holds either exactly the previous items or exactly the newly
\* built ones, whether the request came through api_upload_extract_invoice
\* or through api_create_invoice_from_upload.
C6_ReplacementAllOrNothing ==
    (/\ last_op.op \in {"upload", "extract"}
     /\ last_op.invoice # 0
     /\ last_op.before # <<>>)
    => \/ invoices[last_op.invoice].items = last_op.before
       \/ invoices[last_op.invoice].items = last_op.built

\* C10: after api_create_invoice_from_upload has updated an order, the
\* order's mixed_categories is non-null exactly when its type is 'mixed';
\* when non-null it is the sorted JSON array of the categories found in the
\* invoices linked to the order; and the type is 'mixed' exactly when the
\* tags of these categories are more than one.
C10_MixedCategoriesMatchType ==
    (last_op.op = "upload" /\ last_op.ok)
    => LET ord == orders[last_op.order]
           linked == InvoicesOfOrder(invoices, last_op.order)
           found == UNION {InvoiceContribution(registry, linked[k]).categories
                              : k \in 1..Len(linked)}
           tags == {IF cat = SALES THEN SALES
                    ELSE _normalize_category_to_order_type(cat) : cat \in found}
       IN  /\ (ord.mixed_categories # None) <=> (ord.type = MIXED)
           /\ ord.mixed_categories # None
                  => ord.mixed_categories = json_dumps(SortedList(found))
           /\ (ord.type = MIXED) <=> (Cardinality(tags) > 1)

----------------------------------------------------------------------------
(* Claims about the status lifecycle.                                      *)

\* the steps of the operations that complete, cancel or auto-progress orders
FinalizingStep ==
    \/ \E o \in OrderIds : complete_order(o)
    \/ \E o \in OrderIds : sign_order_document(o)
    \/ \E o \in OrderIds : cancel_order(o)
    \/ \E o \in OrderIds : api_quick_stop_order(o)
    \/ \E o \in OrderIds, r \in BOOLEAN : started_order_detail_complete(o, r)
    \/ process_request
    \/ _mark_overdue_orders

\* C7: once an order's status is 'completed' or 'cancelled', none of
\* complete_order, sign_order_document, cancel_order, api_quick_stop_order,
\* the complete_order action of started_order_detail and automatic
\* progression changes its status again.
C7_CompletedCancelledTerminal ==
    [][FinalizingStep =>
          \A o \in OrderIds :
              orders[o].status \in {"completed", "cancelled"}
                  => orders'[o].status = orders[o].status]_vars

C9_InquiryAlwaysCompleted ==
    \A o \in OrderIds : orders[o].type = INQUIRY => orders[o].status = "completed"


----------------------------------------------------------------------------
(* _aggregate_items as a function of the extracted items.                  *)

\* extracted items: the ones of the invoice runs, and items with a zero
\* rate, a zero or a negative quantity, and a second description and unit
\* for the same code
AggregateCatalogue ==
    ExtractedCatalogue \cup
    {ExtractedItem(<<"b">>, <<"L">>, {-1}, <<"k">>, {0}, {3}),
     ExtractedItem(<<"a">>, <<"L">>, {3}, None, {4}, {0}),
     ExtractedItem(<<"b">>, <<>>, {3}, <<"k">>, {4}, {}),
     ExtractedItem(<<"a">>, None, {0}, <<"k">>, {0}, {})}

\* the dicts _aggregate_items returns, as it reads them when they are passed
\* to it again: 'description', 'code', 'qty' and 'unit' are there, 'rate'
\* and 'value' are not
OutputItems(out) ==
    [k \in 1..Len(out) |->
        ExtractedItem(out[k].description, out[k].code, {out[k].qty},
                      out[k].unit, {}, {})]

InitAggregate ==
    /\ registry = {}
    /\ item_codes = <<>>
    /\ detected = NoResult
    /\ orders = <<>>
    /\ invoices = <<>>
    /\ now = 0
    /\ ticks = 0
    /\ customers = <<>>
    /\ vehicles = <<>>
    /\ salespeople = <<>>
    /\ calls = [kind |-> "none"]
    /\ \E items_list \in ItemLists(AggregateCatalogue) \ {<<>>} :
           last_op = [op |-> "call", items_list |-> items_list]

\* the call _aggregate_items(items_list)
Aggregate ==
    /\ last_op.op = "call"
    /\ last_op' = [op |-> "aggregate", items_list |-> last_op.items_list,
                   out |-> _aggregate_items(last_op.items_list)]
    /\ UNCHANGED <<customers, vehicles, salespeople, calls, registry, item_codes, detected, orders, invoices, now, ticks>>

\* the call _aggregate_items(out) on the list the first call returned
Reaggregate ==
    /\ last_op.op = "aggregate"
    /\ last_op' = [op |-> "reaggregate", items_list |-> last_op.items_list,
                   out |-> last_op.out,
                   again |-> _aggregate_items(OutputItems(last_op.out))]
    /\ UNCHANGED <<customers, vehicles, salespeople, calls, registry, item_codes, detected, orders, invoices, now, ticks>>

NextAggregate == Aggregate \/ Reaggregate

SpecAggregate == InitAggregate /\ [][NextAggregate]_vars

\* C15: _aggregate_items is idempotent: applied to its own output it returns
\* the same list of entries, with the same key, qty, unit and unit_price in
\* every entry.
C15_AggregateIdempotent ==
    last_op.op = "reaggregate" =>
        LET Entry(e) ==
                [key |-> IF Truthy(e.code) THEN e.code
                         ELSE CollapseSpaces(Lower(e.description)),
                 qty |-> e.qty, unit |-> e.unit, unit_price |-> e.unit_price]
        IN  /\ Len(last_op.again) = Len(last_op.out)
            /\ \A k \in 1..Len(last_op.out) :
                   Entry(last_op.again[k]) = Entry(last_op.out[k])

\* C16: _aggregate_items does not depend on the order of its input: every
\* permutation of the list gives the same set of entries, equal in code,
\* description, qty, unit and unit_price.
C16_AggregateOrderIndependent ==
    last_op.op = "aggregate" =>
        \A p \in Permutations(1..Len(last_op.items_list)) :
            SeqToSet(_aggregate_items(
                [k \in 1..Len(last_op.items_list) |-> last_op.items_list[p[k]]]))
                = SeqToSet(last_op.out)

\* C17: _aggregate_items returns exactly one entry for every grouping key
\* (the stripped code, or without a code the lower-cased description with
\* its whitespace collapsed); the qty of the entry is the sum of the
\* quantities of the items of the key, a missing, zero or negative quantity
\* counting as 1; and every qty returned is above zero.
C17_OneEntryPerKeyWithSummedQty ==
    last_op.op = "aggregate" =>
        LET items == last_op.items_list
            out == last_op.out
            KeyOf(it) ==
                IF Strip(OrElse(it.code, <<>>)) # <<>>
                THEN Strip(OrElse(it.code, <<>>))
                ELSE CollapseSpaces(Lower(Strip(OrElse(it.description, ITEM))))
            EntryKey(e) == IF Truthy(e.code) THEN e.code
                           ELSE CollapseSpaces(Lower(e.description))
            Counted(it) ==
                IF it.qty = {} THEN 1
                ELSE LET q == CHOOSE q \in it.qty : TRUE
                     IN  IF q <= 0 THEN 1 ELSE q
            Group(key) == SelectSeq(items, LAMBDA it : KeyOf(it) = key)
            Total(key) == SumSeq([j \in 1..Len(Group(key)) |-> Counted(Group(key)[j])])
        IN  /\ \A i \in 1..Len(items) :
                   Cardinality({k \in 1..Len(out) : EntryKey(out[k]) = KeyOf(items[i])}) = 1
            /\ \A k \in 1..Len(out) :
                   /\ \E i \in 1..Len(items) : KeyOf(items[i]) = EntryKey(out[k])
                   /\ out[k].qty = Total(EntryKey(out[k]))
                   /\ out[k].qty > 0

\* C18: the unit_price of an entry is the mean of the rates of its items
\* that are not None, a rate of 0 included, when there is one; otherwise
\* the sum of the values that are not None divided by the qty of the
\* entry; otherwise 0.
C18_UnitPriceFromRatesThenValues ==
    last_op.op = "aggregate" =>
        LET items == last_op.items_list
            out == last_op.out
            KeyOf(it) ==
                IF Strip(OrElse(it.code, <<>>)) # <<>>
                THEN Strip(OrElse(it.code, <<>>))
                ELSE CollapseSpaces(Lower(Strip(OrElse(it.description, ITEM))))
            EntryKey(e) == IF Truthy(e.code) THEN e.code
                           ELSE CollapseSpaces(Lower(e.description))
            Rated(key) ==
                SelectSeq(items, LAMBDA it : KeyOf(it) = key /\ it.rate # {})
            Valued(key) ==
                SelectSeq(items, LAMBDA it : KeyOf(it) = key /\ it.value # {})
            Rates(key) ==
                [j \in 1..Len(Rated(key)) |-> CHOOSE r \in Rated(key)[j].rate : TRUE]
            Values(key) ==
                [j \in 1..Len(Valued(key)) |-> CHOOSE v \in Valued(key)[j].value : TRUE]
        IN  \A k \in 1..Len(out) :
                LET key == EntryKey(out[k])
                IN  out[k].unit_price =
                        IF Rated(key) # <<>>
                        THEN Rat(SumSeq(Rates(key)), Len(Rates(key)))
                        ELSE IF Valued(key) # <<>>
                             THEN Rat(SumSeq(Values(key)), out[k].qty)
                             ELSE Rat(0, 1)


----------------------------------------------------------------------------
(* get_revenue_by_order_type as a function of the invoices and their line  *)
(* items.  Amounts are whole numbers of the currency.                      *)

\* the columns of InvoiceLineItem the function reads.  order_type is a
\* CharField(max_length=16): its choices are not a database constraint
RevenueCatalogue ==
    {[order_type |-> SALES, line_total |-> 5, tax_amount |-> 0],
     [order_type |-> SERVICE, line_total |-> 3, tax_amount |-> 1],
     [order_type |-> LABOUR, line_total |-> 2, tax_amount |-> 0],
     [order_type |-> UNKNOWN, line_total |-> 1, tax_amount |-> 0],
     [order_type |-> UNSPECIFIED, line_total |-> 1, tax_amount |-> 1],
     [order_type |-> <<>>, line_total |-> 2, tax_amount |-> 0],
     [order_type |-> <<"t", "o", "t", "a", "l">>, line_total |-> 1, tax_amount |-> 0],
     [order_type |-> <<"c", "o", "u", "n", "t">>, line_total |-> 1, tax_amount |-> 0]}

\* Invoice.STATUS_CHOICES
InvoiceStatuses == {"draft", "issued", "paid", "cancelled"}

\* invoice_date values, and the optional date_from and date_to
RevenueDates == {1, 2}

\* the key of the result dict that 'order_type in result' finds, or {}
ResultKey(order_type) ==
    IF order_type = SALES THEN {"sales"}
    ELSE IF order_type = SERVICE THEN {"service"}
    ELSE IF order_type = LABOUR THEN {"labour"}
    ELSE IF order_type = UNKNOWN THEN {"unknown"}
    ELSE IF order_type = <<"t", "o", "t", "a", "l">> THEN {"total"}
    ELSE IF order_type = <<"c", "o", "u", "n", "t">> THEN {"count"}
    ELSE {}

\* the status filter without 'cancelled' left out
AnalysedInvoicesAnyStatus(invs, date_from, date_to) ==
    SelectSeq(invs, LAMBDA inv :
        /\ \A d \in date_from : inv.invoice_date >= d
        /\ \A d \in date_to : inv.invoice_date <= d)

\* invoices_qs after the status filter and the date filters
AnalysedInvoices(invs, date_from, date_to) ==
    SelectSeq(invs, LAMBDA inv :
        /\ inv.status \in {"draft", "issued", "paid"}
        /\ \A d \in date_from : inv.invoice_date >= d
        /\ \A d \in date_to : inv.invoice_date <= d)

RECURSIVE LineItemsOf(_)
\* InvoiceLineItem.objects.filter(invoice_id__in=invoice_ids)
LineItemsOf(invs) ==
    IF invs = <<>> THEN <<>> ELSE Head(invs).items \o LineItemsOf(Tail(invs))

\* one pass of the loop over line_items
AddLineItem(result, item) ==
    LET order_type == IF Truthy(item.order_type) THEN item.order_type ELSE UNKNOWN
        line_value == IF item.tax_amount # 0
                      THEN item.line_total + item.tax_amount
                      ELSE item.line_total
        key == IF ResultKey(order_type) # {}
               THEN CHOOSE k \in ResultKey(order_type) : TRUE
               ELSE "unknown"
    IN  [result EXCEPT ![key] = @ + line_value]

RECURSIVE SumLineItems(_, _)
SumLineItems(result, line_items) ==
    IF line_items = <<>> THEN result
    ELSE SumLineItems(AddLineItem(result, Head(line_items)), Tail(line_items))

\* get_revenue_by_order_type
get_revenue_by_order_type(invs, date_from, date_to) ==
    LET invoice_ids == AnalysedInvoices(invs, date_from, date_to)
        zero == [sales |-> 0, service |-> 0, labour |-> 0, unknown |-> 0,
                 total |-> 0, count |-> Len(invoice_ids)]
        result == SumLineItems(zero, LineItemsOf(invoice_ids))
    IN  IF invoice_ids = <<>> THEN zero
        ELSE [result EXCEPT !.total = result.sales + result.service
                                      + result.labour + result.unknown]

InitRevenue ==
    /\ registry = {}
    /\ item_codes = <<>>
    /\ detected = NoResult
    /\ orders = <<>>
    /\ now = 0
    /\ ticks = 0
    /\ customers = <<>>
    /\ vehicles = <<>>
    /\ salespeople = <<>>
    /\ calls = [kind |-> "none"]
    /\ \E n \in 0..MaxInvoices :
           \E status \in [1..n -> InvoiceStatuses], date \in [1..n -> RevenueDates] :
               \E rows \in ItemLists((1..n) \X RevenueCatalogue) :
                   invoices =
                       [i \in 1..n |->
                           [number |-> i, status |-> status[i],
                            invoice_date |-> date[i],
                            items |-> LET mine == SelectSeq(rows, LAMBDA r : r[1] = i)
                                      IN  [k \in 1..Len(mine) |-> mine[k][2]]]]
    /\ \E date_from, date_to \in {{}} \cup {{d} : d \in RevenueDates} :
           last_op = [op |-> "call", date_from |-> date_from, date_to |-> date_to]

\* the call get_revenue_by_order_type(None, date_from, date_to)
Revenue ==
    /\ last_op.op = "call"
    /\ last_op' = [op |-> "revenue", date_from |-> last_op.date_from,
                   date_to |-> last_op.date_to,
                   result |-> get_revenue_by_order_type(
                                  invoices, last_op.date_from, last_op.date_to)]
    /\ UNCHANGED <<customers, vehicles, salespeople, calls, registry, item_codes, detected, orders, invoices, now, ticks>>

NextRevenue == Revenue

SpecRevenue == InitRevenue /\ [][NextRevenue]_vars


\* C19: the value of every line item of the invoices analysed (line_total,
\* plus tax_amount when there is one) is added to exactly one of the
\* buckets sales, service, labour and unknown: the bucket of its order_type
\* when that is one of the four, and unknown for any other order_type, the
\* empty one, 'unspecified', 'total' and 'count' included; count is the
\* number of invoices analysed; without invoices every bucket and count
\* are 0.
C19_EveryItemInOneBucket ==
    last_op.op = "revenue" =>
        LET analysed == AnalysedInvoices(invoices, last_op.date_from, last_op.date_to)
            items == LineItemsOf(analysed)
            BucketOf(it) == IF it.order_type \in {SALES, SERVICE, LABOUR, UNKNOWN}
                            THEN it.order_type ELSE UNKNOWN
            Members(b) == SelectSeq(items, LAMBDA it : BucketOf(it) = b)
            Sum(b) == SumSeq([k \in 1..Len(Members(b)) |->
                                 Members(b)[k].line_total + Members(b)[k].tax_amount])
        IN  /\ last_op.result.sales = Sum(SALES)
            /\ last_op.result.service = Sum(SERVICE)
            /\ last_op.result.labour = Sum(LABOUR)
            /\ last_op.result.unknown = Sum(UNKNOWN)
            /\ last_op.result.count = Len(analysed)
            /\ analysed = <<>> =>
                   last_op.result = [sales |-> 0, service |-> 0, labour |-> 0,
                                     unknown |-> 0, total |-> 0, count |-> 0]

\* C20: total is the sum of the buckets sales, service, labour and unknown,
\* and only the invoices with status draft, issued or paid contribute: the
\* result is the one of the same call without the other invoices.
C20_TotalIsSumOfContributingInvoices ==
    last_op.op = "revenue" =>
        /\ last_op.result.total =
               last_op.result.sales + last_op.result.service
               + last_op.result.labour + last_op.result.unknown
        /\ last_op.result =
               get_revenue_by_order_type(
                   SelectSeq(invoices, LAMBDA inv :
                       inv.status \in {"draft", "issued", "paid"}),
                   last_op.date_from, last_op.date_to)
        /\ (\A i \in 1..Len(invoices) : invoices[i].status = "cancelled")
               => last_op.result.total = 0

\* a call on a cancelled invoice with an item and a paid one with an item
C20_Witness ==
    /\ last_op.op = "revenue"
    /\ \E i, j \in 1..Len(invoices) :
           /\ invoices[i].status = "cancelled" /\ invoices[i].items # <<>>
           /\ invoices[j].status = "paid" /\ invoices[j].items # <<>>
    /\ last_op.result.total > 0
    /\ last_op.result.count = 1


----------------------------------------------------------------------------
(* retry_on_db_lock around api_create_invoice_from_upload.  Delays are in  *)
(* tenths of a second.                                                     *)

MaxRetries == 3

\* the exceptions an execution of the view meets
ViewErrors ==
    {[type |-> "OperationalError", message |-> <<"D", "a", "t", "a", "b", "a", "s", "e", " ", "i", "s", " ", "l", "o", "c", "k", "e", "d">>],
     [type |-> "TransactionManagementError", message |-> <<"A", "n", " ", "e", "r", "r", "o", "r", " ", "o", "c", "c", "u", "r", "r", "e", "d", " ", "i", "n", " ", "t", "h", "e", " ", "c", "u", "r", "r", "e", "n", "t", " ", "t", "r", "a", "n", "s", "a", "c", "t", "i", "o", "n">>],
     [type |-> "OperationalError", message |-> <<"b", "r", "o", "k", "e", "n">>],
     [type |-> "OperationalError", message |-> <<"n", "o", " ", "s", "u", "c", "h", " ", "t", "a", "b", "l", "e">>],
     [type |-> "ValueError", message |-> <<"d", "a", "t", "a", "b", "a", "s", "e", " ", "i", "s", " ", "l", "o", "c", "k", "e", "d">>]}

\* one execution of the view: at says where the exception is raised;
\* "before" is ahead of the try block of the view, "body" inside its
\* transaction.atomic() block, "none" nowhere
ViewOutcomes ==
    {[at |-> "none", error |-> [type |-> "none", message |-> <<>>]]}
        \cup [at : {"before", "body"}, error : ViewErrors]

\* the except clause of the wrapper and its test of the message
Retryable(e) ==
    /\ e.type \in {"OperationalError", "TransactionManagementError"}
    /\ \/ Contains(Lower(e.message), <<"d", "a", "t", "a", "b", "a", "s", "e", " ", "i", "s", " ", "l", "o", "c", "k", "e", "d">>)
       \/ Contains(Lower(e.message), <<"c", "u", "r", "r", "e", "n", "t", " ", "t", "r", "a", "n", "s", "a", "c", "t", "i", "o", "n">>)
       \/ Contains(Lower(e.message), <<"b", "r", "o", "k", "e", "n">>)

\* func(request): what api_create_invoice_from_upload gives its caller.  An
\* exception of the body is caught by 'except Exception' and answered with
\* success False
func(outcome) ==
    IF outcome.at = "before"
    THEN [raises |-> TRUE, response |-> "none", error |-> outcome.error]
    ELSE [raises |-> FALSE,
          response |-> IF outcome.at = "body" THEN "failure" ELSE "success",
          error |-> [type |-> "none", message |-> <<>>]]

RECURSIVE RetryAnyError(_, _, _, _, _)
\* the wrapper with a retry after every exception
RetryAnyError(max_retries, attempt, delay, outcomes, sleeps) ==
    IF attempt >= max_retries
    THEN [response |-> "503", error |-> [type |-> "none", message |-> <<>>],
          calls |-> attempt, sleeps |-> sleeps]
    ELSE LET r == func(outcomes[attempt + 1])
         IN  IF ~r.raises
             THEN [response |-> r.response, error |-> r.error,
                   calls |-> attempt + 1, sleeps |-> sleeps]
             ELSE IF attempt < max_retries - 1
                  THEN RetryAnyError(max_retries, attempt + 1, delay * 2, outcomes,
                                     Append(sleeps, delay))
                  ELSE [response |-> "raised", error |-> r.error,
                        calls |-> attempt + 1, sleeps |-> sleeps]

RECURSIVE wrapper(_, _, _, _, _)
\* the loop of wrapper(request) from the attempt on: the answer of the
\* request, the number of executions of the view and the sleeps made
wrapper(max_retries, attempt, delay, outcomes, sleeps) ==
    IF attempt >= max_retries
    THEN [response |-> "503", error |-> [type |-> "none", message |-> <<>>],
          calls |-> attempt, sleeps |-> sleeps]
    ELSE LET r == func(outcomes[attempt + 1])
         IN  IF ~r.raises
             THEN [response |-> r.response, error |-> r.error,
                   calls |-> attempt + 1, sleeps |-> sleeps]
             ELSE IF Retryable(r.error) /\ attempt < max_retries - 1
                  THEN wrapper(max_retries, attempt + 1, delay * 2, outcomes,
                               Append(sleeps, delay))
                  ELSE [response |-> "raised", error |-> r.error,
                        calls |-> attempt + 1, sleeps |-> sleeps]

InitRetry ==
    /\ registry = {}
    /\ item_codes = <<>>
    /\ detected = NoResult
    /\ orders = <<>>
    /\ invoices = <<>>
    /\ now = 0
    /\ ticks = 0
    /\ customers = <<>>
    /\ vehicles = <<>>
    /\ salespeople = <<>>
    /\ calls = [kind |-> "none"]
    /\ \E max_retries \in 0..MaxRetries, initial_delay \in {1, 5} :
           \E outcomes \in [1..MaxRetries -> ViewOutcomes] :
               last_op = [op |-> "call", max_retries |-> max_retries,
                          initial_delay |-> initial_delay, outcomes |-> outcomes]

\* one request to the decorated view
retry_on_db_lock ==
    /\ last_op.op = "call"
    /\ last_op' = [op |-> "retry_on_db_lock", max_retries |-> last_op.max_retries,
                   initial_delay |-> last_op.initial_delay,
                   outcomes |-> last_op.outcomes,
                   result |-> wrapper(last_op.max_retries, 0, last_op.initial_delay,
                                      last_op.outcomes, <<>>)]
    /\ UNCHANGED <<customers, vehicles, salespeople, calls, registry, item_codes, detected, orders, invoices, now, ticks>>

SpecRetry == InitRetry /\ [][retry_on_db_lock]_vars

\* C21: when every one of the max_retries executions of the view raises an
\* OperationalError that says 'database is locked', the request is answered
\* with the 503 response and the exception does not reach the caller.
C21_LockedOnEveryAttemptGives503 ==
    (/\ last_op.op = "retry_on_db_lock"
     /\ \A k \in 1..last_op.max_retries :
            /\ last_op.outcomes[k].at = "before"
            /\ last_op.outcomes[k].error.type = "OperationalError"
            /\ Contains(Lower(last_op.outcomes[k].error.message), <<"d", "a", "t", "a", "b", "a", "s", "e", " ", "i", "s", " ", "l", "o", "c", "k", "e", "d">>))
        => last_op.result.response = "503"

\* C22: the wrapper executes the view at most max_retries times; every
\* execution but the last one raised an OperationalError or a
\* TransactionManagementError whose message holds 'database is locked',
\* 'current transaction' or 'broken'; an execution that raises any other
\* exception is the last one and its exception reaches the caller, after one
\* execution when it is the first; an execution that returns is the last
\* one and its response is the answer; there is one sleep before every
\* further execution, the first of initial_delay and each twice the one
\* before.
C22_RetryOnlyOnLockErrors ==
    last_op.op = "retry_on_db_lock" =>
        LET r == last_op.result
            out(k) == func(last_op.outcomes[k])
        IN  /\ r.calls <= last_op.max_retries
            /\ \A k \in 1..(r.calls - 1) : out(k).raises /\ Retryable(out(k).error)
            /\ \A k \in 1..r.calls :
                   (out(k).raises /\ ~Retryable(out(k).error)) =>
                       k = r.calls /\ r.response = "raised" /\ r.error = out(k).error
            /\ (last_op.max_retries > 0 /\ out(1).raises /\ ~Retryable(out(1).error))
                   => r.calls = 1 /\ r.response = "raised"
            /\ \A k \in 1..r.calls :
                   ~out(k).raises => k = r.calls /\ r.response = out(k).response
            /\ Len(r.sleeps) = IF r.calls = 0 THEN 0 ELSE r.calls - 1
            /\ \A k \in 1..Len(r.sleeps) :
                   r.sleeps[k] = IF k = 1 THEN last_op.initial_delay
                                 ELSE 2 * r.sleeps[k - 1]

\* a request answered by the third execution, after a lock error and a
\* transaction error
C22_Witness ==
    /\ last_op.op = "retry_on_db_lock"
    /\ last_op.max_retries = 3
    /\ last_op.outcomes[1].error.type = "OperationalError"
    /\ last_op.outcomes[2].error.type = "TransactionManagementError"
    /\ last_op.result.calls = 3
    /\ last_op.result.sleeps = <<5, 10>>
    /\ last_op.result.response = "success"

\* C30: with the three attempts of the decoration of
\* api_create_invoice_from_upload, an OperationalError 'database is locked'
\* raised inside the transaction body of the first execution makes the
\* wrapper execute the view again; the request does not end with the
\* failure response of the first execution.
C30_LockInBodyIsRetried ==
    (/\ last_op.op = "retry_on_db_lock"
     /\ last_op.max_retries = 3
     /\ last_op.outcomes[1].at = "body"
     /\ last_op.outcomes[1].error.type = "OperationalError"
     /\ Contains(Lower(last_op.outcomes[1].error.message), <<"d", "a", "t", "a", "b", "a", "s", "e", " ", "i", "s", " ", "l", "o", "c", "k", "e", "d">>))
        => last_op.result.calls >= 2


\* C29: whenever api_create_invoice_from_upload reaches the creation of a
\* new order (the request selects and matches no order), the detected order
\* type it passes to OrderService.create_order is one of service, sales,
\* inquiry, labour, unspecified and mixed, whatever the outcome of the
\* detection attempts.
C29_UploadCreatesOrderWithValidType ==
    [][(/\ last_op'.op = "upload"
        /\ last_op'.served = last_op.served + 1
        /\ \/ Len(orders') > Len(orders)
           \/ last_op'.order = 0)
          => last_op'.detected.order_type \in ValidOrderTypes]_vars


\* C23: the complete_order action of started_order_detail never completes an
\* order whose started_at lies OVERDUE_THRESHOLD_HOURS or more back unless
\* the request carries a delay reason, be the order 'in_progress' or already
\* 'overdue'.
C23_LateCompletionNeedsDelayReason ==
    [][\A o \in OrderIds : \A has_delay_reason \in BOOLEAN :
          (/\ started_order_detail_complete(o, has_delay_reason)
           /\ orders[o].status \in {"in_progress", "overdue"}
           /\ orders'[o].status = "completed"
           /\ is_order_overdue(orders[o].started_at, now))
              => has_delay_reason]_vars

\* C28: an invoice never has the status 'issued' while it has no line item:
\* invoice_finalize issues a draft only when it has a line item, and
\* add_line_item, delete_line_item and the uploads that follow keep it so.
C28_IssuedInvoiceHasLineItems ==
    \A i \in InvoiceIds :
        invoices[i].status = "issued" => invoices[i].items # <<>>

----------------------------------------------------------------------------
(* Services: Salesperson.save, CustomerService and api_start_order.         *)
(* calls holds the calls of one scenario: which kind of call is being made,  *)
(* for the calls that run concurrently the position of each one between its  *)
(* database statements, and for the sequential ones the results so far.     *)

MaxCalls == 3

\* Salesperson.save: the update that clears the flag on the other rows, then
\* the write of the saved row; each is a statement of its own, with no
\* transaction around the two
Salesperson_save(p) ==
    LET self == calls.procs[p]
    IN  /\ calls.kind = "save"
        /\ self.pc # "done"
        /\ IF self.pc = "clear"
           THEN /\ salespeople' =
                      IF self.is_default
                      THEN [i \in DOMAIN salespeople |->
                               IF i # self.id /\ salespeople[i].is_default
                               THEN [salespeople[i] EXCEPT !.is_default = FALSE]
                               ELSE salespeople[i]]
                      ELSE salespeople
                /\ calls' = [calls EXCEPT !.procs[p].pc = "write"]
           ELSE /\ salespeople' = [salespeople EXCEPT ![self.id].is_default = self.is_default]
                /\ calls' = [calls EXCEPT !.procs[p].pc = "done"]
        /\ UNCHANGED <<registry, item_codes, detected, orders, invoices, now, ticks,
                       customers, vehicles, last_op>>

\* CustomerService.find_duplicate_customer: the id of the first matching row,
\* 0 for None.  normalize_phone is a function of the phone text, so two equal
\* texts have equal normal forms; the calls of the model use one phone text.
find_duplicate_customer(branch, full_name, phone, organization_name, tax_number, customer_type) ==
    IF branch = {} \/ full_name = <<>> \/ phone = <<>>
    THEN 0
    ELSE LET OrEmpty(x) == IF x = None THEN <<>> ELSE x
             Matches(c) ==
                 /\ c.branch = branch
                 /\ Lower(c.full_name) = Lower(full_name)
                 /\ OrEmpty(c.phone) = phone
                 /\ Truthy(organization_name)
                       => organization_name = OrEmpty(c.organization_name)
                 /\ Truthy(tax_number) => tax_number = OrEmpty(c.tax_number)
                 /\ Truthy(customer_type) => c.customer_type = customer_type
             found == {i \in DOMAIN customers : Matches(customers[i])}
         IN  IF found = {} THEN 0 ELSE CHOOSE i \in found : \A j \in found : i <= j

\* CustomerService.create_or_get_customer
create_or_get_customer(branch, name, phone_text, email_text, whatsapp_text, address_text, customer_type, organization_text, tax_text) ==
    LET \* (x or "").strip() or None
        StripOrNone(x) == IF x = None \/ Strip(x) = <<>> THEN None ELSE Strip(x)
        full_name == IF name = None THEN <<>> ELSE Strip(name)
        phone == IF phone_text = None THEN <<>> ELSE Strip(phone_text)
        email == StripOrNone(email_text)
        whatsapp == StripOrNone(whatsapp_text)
        address == StripOrNone(address_text)
        organization_name == StripOrNone(organization_text)
        tax_number == StripOrNone(tax_text)
        existing == find_duplicate_customer(branch, full_name, phone, organization_name,
                                            tax_number, customer_type)
        Filled(row) ==
            [row EXCEPT !.address = IF Truthy(address) THEN address ELSE @,
                        !.email = IF Truthy(email) THEN email ELSE @,
                        !.whatsapp = IF Truthy(whatsapp) THEN whatsapp ELSE @]
        customer ==
            [branch |-> branch, full_name |-> full_name, phone |-> phone, email |-> email,
             whatsapp |-> whatsapp, address |-> address,
             customer_type |-> IF Truthy(customer_type) THEN customer_type
                               ELSE <<"p", "e", "r", "s", "o", "n", "a", "l">>,
             organization_name |-> organization_name, tax_number |-> tax_number,
             arrival_time |-> {now}, current_status |-> "arrived", last_visit |-> {},
             total_visits |-> 0]
        \* the unique constraint on (branch, full_name, phone, organization_name,
        \* tax_number): rows with a NULL in one of the columns never conflict
        IntegrityError ==
            \E i \in DOMAIN customers :
                /\ branch # {} /\ organization_name # None /\ tax_number # None
                /\ customers[i].branch = branch
                /\ customers[i].full_name = full_name
                /\ customers[i].phone = phone
                /\ customers[i].organization_name = organization_name
                /\ customers[i].tax_number = tax_number
        Returns(raised, id, created) ==
            calls' = [calls EXCEPT
                         !.log = Append(@, [empty |-> name \in {None, <<>>} \/ phone_text \in {None, <<>>},
                                            raised |-> raised, id |-> id,
                                            created |-> created]),
                         !.last = [before |-> customers, address |-> address,
                                   email |-> email, whatsapp |-> whatsapp]]
    IN  /\ calls.kind = "customer"
        /\ Len(calls.log) < MaxCalls
        /\ IF full_name = <<>> \/ phone = <<>>
           THEN /\ Returns("ValueError", 0, FALSE)
                /\ UNCHANGED customers
           ELSE IF existing # 0
           THEN /\ customers' = [customers EXCEPT ![existing] = Filled(@)]
                /\ Returns("none", existing, FALSE)
           ELSE IF IntegrityError
           THEN /\ Returns("IntegrityError", 0, FALSE)
                /\ UNCHANGED customers
           ELSE /\ customers' = Append(customers, customer)
                /\ Returns("none", Len(customers) + 1, TRUE)
        /\ UNCHANGED <<registry, item_codes, detected, orders, invoices, now, ticks,
                       vehicles, salespeople, last_op>>

\* update_customer_visit with the day test left out: every call counts
VisitAlwaysCounted(customer, t) ==
    [customer EXCEPT !.last_visit = {t}, !.arrival_time = {t},
                     !.current_status = "arrived", !.total_visits = @ + 1]

\* CustomerService.update_customer_visit at time t: the customer as it is saved;
\* a local calendar date is the minute count divided by the minutes of a day
update_customer_visit(customer, t) ==
    LET today == t \div (24 * 60)
        last_visit_today ==
            /\ customer.last_visit # {}
            /\ \E v \in customer.last_visit : v \div (24 * 60) = today
    IN  [customer EXCEPT !.last_visit = {t}, !.arrival_time = {t},
                         !.current_status = "arrived",
                         !.total_visits = IF last_visit_today THEN @ ELSE @ + 1]

\* a call of update_customer_visit on customer c, loaded from the table
VisitCall(c) ==
    /\ calls.kind = "visit"
    /\ calls.made < MaxCalls
    /\ customers' = [customers EXCEPT ![c] = update_customer_visit(@, now)]
    /\ calls' = [calls EXCEPT !.made = @ + 1,
                              !.days = @ \cup {now \div (24 * 60)},
                              !.last = [at |-> now, before |-> customers[c],
                                        first |-> (now \div (24 * 60)) \notin calls.days]]
    /\ UNCHANGED <<registry, item_codes, detected, orders, invoices, now, ticks,
                   vehicles, salespeople, last_op>>

\* api_start_order with force_new_order false, order_type 'service' and the
\* plate 'X', as request p runs from one database statement to the next inside
\* its transaction.  by_customer tells whether the body names
\* existing_customer_id.  A statement that writes may fail with 'database is
\* locked' when the other request has written and not yet committed (SQLite);
\* on a database with row locks both requests go on.  The lookups and the
\* insert of one get-or-create helper are taken together.
api_start_order(p, locked) ==
    LET self == calls.procs[p]
        other == calls.procs[3 - p]
        Active(v) == {o \in DOMAIN orders : /\ orders[o].vehicle = v
                                            /\ orders[o].status \in {"created", "in_progress", "overdue"}}
        WithStatus(v, S) == {o \in DOMAIN orders : orders[o].vehicle = v /\ orders[o].status \in S}
        Latest(S) == CHOOSE o \in S : \A q \in S : q <= o
        \* the response, with the history of whether the vehicle had an active order
        Done(response, order, v) ==
            [self EXCEPT !.pc = "done", !.response = response, !.order = order,
                         !.had_active = v # 0 /\ Active(v) # {}]
        Blocked == locked /\ ~self.wrote /\ other.wrote /\ other.pc # "done"
        full_name == <<"P", "l", "a", "t", "e", " ", "X">>
        phone == <<"P", "L", "A", "T", "E", "_", "X">>
        personal == <<"p", "e", "r", "s", "o", "n", "a", "l">>
        existing_vehicle ==
            {v \in DOMAIN vehicles : /\ Lower(vehicles[v].plate_number) = Lower(<<"X">>)
                                     /\ customers[vehicles[v].customer].branch = calls.branch}
        existing == find_duplicate_customer(calls.branch, full_name, phone, None, None, personal)
        own_vehicle ==
            {v \in DOMAIN vehicles : /\ vehicles[v].customer = self.customer
                                     /\ Lower(vehicles[v].plate_number) = Lower(<<"X">>)}
        created == WithStatus(self.vehicle, {"created"})
        started == WithStatus(self.vehicle, {"in_progress", "overdue"})
        reused == IF created # {} THEN Latest(created) ELSE Latest(started)
        Step(proc) == calls' = [calls EXCEPT !.procs[p] = proc]
    IN  /\ calls.kind = "start"
        /\ self.pc # "done"
        /\ ~locked \/ Blocked
        /\ CASE self.pc = "begin" /\ calls.by_customer ->
                  /\ Step([self EXCEPT !.pc = "vehicle", !.customer = 1])
                  /\ UNCHANGED <<customers, vehicles, orders>>
             [] self.pc = "begin" /\ ~calls.by_customer ->
                  /\ Step(IF existing_vehicle = {}
                          THEN [self EXCEPT !.pc = "customer"]
                          ELSE LET v == CHOOSE x \in existing_vehicle :
                                            \A y \in existing_vehicle : x <= y
                                   found == WithStatus(v, {"created", "in_progress"})
                               IN  IF found # {}
                                   THEN Done("existing_order", Latest(found), v)
                                   ELSE Done("existing_customer", 0, v))
                  /\ UNCHANGED <<customers, vehicles, orders>>
             [] self.pc = "customer" /\ existing # 0 ->
                  /\ Step([self EXCEPT !.pc = "vehicle", !.customer = existing])
                  /\ UNCHANGED <<customers, vehicles, orders>>
             [] self.pc = "customer" /\ existing = 0 /\ Blocked ->
                  /\ Step(Done("error", 0, 0))
                  /\ UNCHANGED <<customers, vehicles, orders>>
             [] self.pc = "customer" /\ existing = 0 /\ ~Blocked ->
                  /\ customers' = Append(customers,
                        [branch |-> calls.branch, full_name |-> full_name, phone |-> phone,
                         email |-> None, whatsapp |-> None, address |-> None,
                         customer_type |-> personal, organization_name |-> None,
                         tax_number |-> None, arrival_time |-> {now},
                         current_status |-> "arrived", last_visit |-> {},
                         total_visits |-> 0])
                  /\ Step([self EXCEPT !.pc = "vehicle", !.customer = Len(customers) + 1,
                                       !.wrote = TRUE])
                  /\ UNCHANGED <<vehicles, orders>>
             [] self.pc = "vehicle" /\ own_vehicle # {} ->
                  /\ Step([self EXCEPT !.pc = "lookup",
                              !.vehicle = CHOOSE x \in own_vehicle : \A y \in own_vehicle : x <= y])
                  /\ UNCHANGED <<customers, vehicles, orders>>
             [] self.pc = "vehicle" /\ own_vehicle = {} /\ Blocked ->
                  /\ Step(Done("error", 0, 0))
                  /\ UNCHANGED <<customers, vehicles, orders>>
             [] self.pc = "vehicle" /\ own_vehicle = {} /\ ~Blocked ->
                  /\ vehicles' = Append(vehicles, [customer |-> self.customer,
                                                   plate_number |-> <<"X">>])
                  /\ Step([self EXCEPT !.pc = "lookup", !.vehicle = Len(vehicles) + 1,
                                       !.wrote = TRUE])
                  /\ UNCHANGED <<customers, orders>>
             [] self.pc = "lookup" /\ created \cup started = {} ->
                  /\ Step([self EXCEPT !.pc = "insert"])
                  /\ UNCHANGED <<customers, vehicles, orders>>
             [] self.pc = "lookup" /\ created \cup started # {} /\ Blocked ->
                  /\ Step(Done("error", 0, self.vehicle))
                  /\ UNCHANGED <<customers, vehicles, orders>>
             [] self.pc = "lookup" /\ created \cup started # {} /\ ~Blocked ->
                  /\ customers' = [customers EXCEPT ![self.customer] =
                                      update_customer_visit(@, now)]
                  /\ Step([Done("reused", reused, self.vehicle) EXCEPT !.wrote = TRUE])
                  /\ UNCHANGED <<vehicles, orders>>
             [] self.pc = "insert" /\ Blocked ->
                  /\ Step(Done("error", 0, self.vehicle))
                  /\ UNCHANGED <<customers, vehicles, orders>>
             [] self.pc = "insert" /\ ~Blocked ->
                  /\ orders' = Append(orders, [vehicle |-> self.vehicle]
                                              @@ CreatedOrderRow(SERVICE, now))
                  /\ customers' = [customers EXCEPT ![self.customer] =
                                      update_customer_visit(@, now)]
                  /\ Step([Done("created", Len(orders) + 1, self.vehicle)
                              EXCEPT !.wrote = TRUE])
                  /\ UNCHANGED vehicles
        /\ UNCHANGED <<registry, item_codes, detected, invoices, now, ticks, salespeople,
                       last_op>>

\* the scenarios: two save() calls on different salespeople of a table with at
\* most one default; up to MaxCalls calls of create_or_get_customer for one
\* identity on an empty table; up to MaxCalls calls of update_customer_visit on
\* a customer with no visit, at times the clock reaches; two api_start_order
\* requests with the same body on a database that holds nothing, the customer
\* of the plate, or the customer with the vehicle and possibly an order
InitService ==
    /\ registry = {}
    /\ item_codes = <<>>
    /\ detected = NoResult
    /\ invoices = <<>>
    /\ ticks = 0
    /\ last_op = Request("init")
    /\ \/ /\ customers = <<>>
          /\ vehicles = <<>>
          /\ now = 0
          /\ orders = <<>>
          /\ \E flags \in [1..MaxCalls -> BOOLEAN] :
                /\ Cardinality({i \in 1..MaxCalls : flags[i]}) <= 1
                /\ salespeople = [i \in 1..MaxCalls |-> [is_default |-> flags[i]]]
          /\ \E a, b \in 1..MaxCalls : \E fa, fb \in BOOLEAN :
                /\ a # b
                /\ calls = [kind |-> "save",
                            procs |-> <<[id |-> a, is_default |-> fa, pc |-> "clear"],
                                        [id |-> b, is_default |-> fb, pc |-> "clear"]>>]
       \/ /\ customers = <<>>
          /\ vehicles = <<>>
          /\ salespeople = <<>>
          /\ now = 0
          /\ orders = <<>>
          /\ \E branch \in {{}, {1}}, full_name \in {<<"n">>, <<" ", "N">>},
                organization_name \in {None, <<"o">>}, tax_number \in {None, <<"t">>},
                customer_type \in {None, <<"c", "o", "m", "p", "a", "n", "y">>} :
                calls = [kind |-> "customer", branch |-> branch, full_name |-> full_name,
                         phone |-> <<"7">>, organization_name |-> organization_name,
                         tax_number |-> tax_number, customer_type |-> customer_type,
                         log |-> <<>>, last |-> [before |-> <<>>]]
       \/ /\ vehicles = <<>>
          /\ salespeople = <<>>
          /\ now \in {0, 24 * 60 - 10}
          /\ orders = <<>>
          /\ \E current_status \in {"arrived", "departed"} :
                customers = <<[branch |-> {1}, full_name |-> <<"n">>, phone |-> <<"7">>,
                               email |-> None, whatsapp |-> None, address |-> None,
                               customer_type |-> <<"p", "e", "r", "s", "o", "n", "a", "l">>,
                               organization_name |-> None, tax_number |-> None,
                               arrival_time |-> {}, current_status |-> current_status,
                               last_visit |-> {}, total_visits |-> 0]>>
          /\ calls = [kind |-> "visit", made |-> 0, days |-> {}, last |-> [at |-> 0]]
       \/ /\ salespeople = <<>>
          /\ now = 0
          /\ \E by_customer \in BOOLEAN, rows \in 0..2,
                st \in {"none", "created", "in_progress", "overdue", "completed"} :
                /\ by_customer => rows >= 1
                /\ st # "none" => rows = 2
                /\ customers =
                      IF rows = 0 THEN <<>>
                      ELSE <<[branch |-> {1}, full_name |-> <<"P", "l", "a", "t", "e", " ", "X">>,
                              phone |-> <<"P", "L", "A", "T", "E", "_", "X">>,
                              email |-> None, whatsapp |-> None, address |-> None,
                              customer_type |-> <<"p", "e", "r", "s", "o", "n", "a", "l">>,
                              organization_name |-> None, tax_number |-> None,
                              arrival_time |-> {0}, current_status |-> "arrived",
                              last_visit |-> {}, total_visits |-> 0]>>
                /\ vehicles = IF rows = 2 THEN <<[customer |-> 1, plate_number |-> <<"X">>]>>
                              ELSE <<>>
                /\ orders =
                      IF st = "none" THEN <<>>
                      ELSE <<[vehicle |-> 1] @@
                             [CreatedOrderRow(SERVICE, 0) EXCEPT
                                 !.status = st,
                                 !.started_at = IF st = "created" THEN {} ELSE {0},
                                 !.completed_at = IF st = "completed" THEN {0} ELSE {}]>>
                /\ calls = [kind |-> "start", by_customer |-> by_customer, branch |-> {1},
                            initial |-> st,
                            procs |-> [p \in 1..2 |->
                                         [pc |-> "begin", customer |-> 0, vehicle |-> 0,
                                          response |-> "none", order |-> 0,
                                          had_active |-> FALSE, wrote |-> FALSE]]]

NextService ==
    \/ \E p \in 1..2 : Salesperson_save(p)
    \/ /\ calls.kind = "customer"
       /\ \E name \in {calls.full_name, <<>>}, phone \in {calls.phone, <<>>},
             email \in {None, <<"e">>}, whatsapp \in {None, <<"w">>},
             address \in {None, <<"a">>, <<" ", "b">>} :
             create_or_get_customer(calls.branch, name, phone, email, whatsapp, address,
                                    calls.customer_type, calls.organization_name,
                                    calls.tax_number)
    \/ \E c \in DOMAIN customers : VisitCall(c)
    \/ \E p \in 1..2, locked \in BOOLEAN : api_start_order(p, locked)
    \/ /\ calls.kind = "visit"
       /\ \E d \in {10, 24 * 60} : Tick(d)

SpecService == InitService /\ [][NextService]_vars

\* C25: at most one Salesperson has is_default true in every reachable state,
\* also while two save() calls with is_default true on different salespeople
\* interleave
C25_AtMostOneDefault ==
    Cardinality({i \in DOMAIN salespeople : salespeople[i].is_default}) <= 1

\* C26: repeated create_or_get_customer calls with one identity (branch,
\* full_name, phone, organization_name, tax_number), for every branch value and
\* no branch too, leave exactly one Customer record; the first call returns it
\* with created=True, every later call returns the same record with
\* created=False and changes only address, email or whatsapp, each to its
\* non-empty argument; a call with an empty full_name or phone raises
\* ValueError and creates nothing
C26_OneRecordPerIdentity ==
    calls.kind = "customer" =>
        LET log == calls.log
            real == {k \in DOMAIN log : ~log[k].empty}
            last == calls.last
        IN  /\ \A k \in DOMAIN log : log[k].empty => log[k].raised = "ValueError"
            /\ (log # <<>> /\ log[Len(log)].empty) => customers = last.before
            /\ real # {} => Len(customers) = 1
            /\ \A k \in real :
                  /\ log[k].raised = "none"
                  /\ log[k].id = 1
                  /\ log[k].created = (\A j \in real : k <= j)
            /\ (log # <<>> /\ ~log[Len(log)].empty /\ last.before # <<>>) =>
                  customers[1] =
                      [last.before[1] EXCEPT
                          !.address = IF Truthy(last.address) THEN last.address ELSE @,
                          !.email = IF Truthy(last.email) THEN last.email ELSE @,
                          !.whatsapp = IF Truthy(last.whatsapp) THEN last.whatsapp ELSE @]

\* C27: after any sequence of update_customer_visit calls on a customer that
\* had total_visits 0 and no last_visit, total_visits is the number of distinct
\* local dates with a call: the first call of a day added 1, a later call of
\* the day added 0, and the last call set last_visit and arrival_time to its
\* time and current_status to 'arrived'
C27_VisitsCountDistinctDays ==
    (calls.kind = "visit" /\ calls.made > 0) =>
        /\ customers[1].total_visits = Cardinality(calls.days)
        /\ customers[1].total_visits =
              calls.last.before.total_visits + (IF calls.last.first THEN 1 ELSE 0)
        /\ customers[1].last_visit = {calls.last.at}
        /\ customers[1].arrival_time = {calls.last.at}
        /\ customers[1].current_status = "arrived"

\* three calls on two days, the customer being 'departed' before the first
C27_Witness ==
    /\ calls.kind = "visit"
    /\ calls.made = MaxCalls
    /\ Cardinality(calls.days) = 2
    /\ ~calls.last.first
    /\ customers[1].total_visits = 2

\* C24: with force_new_order false api_start_order creates no order for a
\* vehicle that has an order in status created, in_progress or overdue, and
\* answers with the existing order; of two interleaved requests for the same
\* customer and plate at most one creates an order
C24_NoDuplicateActiveOrder ==
    calls.kind = "start" =>
        /\ \A p \in 1..2 : calls.procs[p].response = "created" => ~calls.procs[p].had_active
        /\ \A p \in 1..2 :
              (calls.procs[p].had_active /\ calls.procs[p].response \notin {"none", "error"})
                  => (/\ calls.procs[p].response \in {"existing_order", "reused"}
                      /\ calls.procs[p].order # 0)
        /\ Cardinality({p \in 1..2 : calls.procs[p].response = "created"}) <= 1

====
